---- MODULE Spec2Model ----
(***************************************************************************)
(* Model of the iterator and generator examples of the tutorial notebooks: *)
(* RangeIterator, range_generator_function and the generator functions of  *)
(* the send / throw / close sections, driven by next(), next(it, default), *)
(* send(), throw() and close().                                            *)
(*                                                                         *)
(* One object is constructed and then called up to MaxCalls times.  Every  *)
(* call is appended to `log` with the object before and after the call,    *)
(* the call's outcome and the body statements (prints) it executed.        *)
(***************************************************************************)
EXTENDS Integers, Sequences, FiniteSets

VARIABLES obj, log, out, ctor, iters

vars == <<obj, log, out, ctor, iters>>

(* the iterators handed out by iter(obj), in the order they were created; *)
(* only the RangeIterable cells use them                                  *)
aux == <<iters>>

(* ------------------------------ bounds --------------------------------- *)

MaxStop == 3
MaxCalls == 5

(* Number of iterations of `for i in range(2)` in the throw example. *)
LoopN == 2

(* --------------------------- Python values ----------------------------- *)

None == [t |-> "None", v |-> 0]
PyInt(n) == [t |-> "int", v |-> n]
PyStr(n) == [t |-> "str", v |-> n]

(* 'print this', 'return_value', and a str given where an int is expected *)
STR_print_this == PyStr(1)
STR_return_value == PyStr(2)
STR_not_an_int == PyStr(3)

(* a negative number that is not an int, such as -1.0 *)
FLOAT_negative == [t |-> "float", v |-> -1]

(* self.next_item = StopIteration() *)
StopIterationMarker == [t |-> "StopIteration", v |-> 0]

isinstance_int(x) == x.t = "int"
isinstance_StopIteration(x) == x.t = "StopIteration"

(* Exception classes; GeneratorExit is a BaseException but not an Exception *)
isinstance_Exception(e) == e \in {"ExpectedError", "KeyError", "StopAdder"}

(* ------------------------- outcomes of a call -------------------------- *)

(* id names the exception object raised: 0 for an exception created by   *)
(* the raise itself, n > 0 for the instance n a caller created and passed *)
(* in, so that `exc is value` can be decided.                             *)
Return(x) == [k |-> "return", exc |-> "", val |-> x, id |-> 0]
Raise(e) == [k |-> "raise", exc |-> e, val |-> None, id |-> 0]
RaiseStopIteration(x) ==
  [k |-> "raise", exc |-> "StopIteration", val |-> x, id |-> 0]

(* the exception instance id of class e, raised (again) *)
RaiseObj(e, id) == [k |-> "raise", exc |-> e, val |-> None, id |-> id]

(* raise e(msg) *)
RaiseMsg(e, msg) == [k |-> "raise", exc |-> e, val |-> msg, id |-> 0]

IsStopIteration(r) == r.k = "raise" /\ r.exc = "StopIteration"

(* A printed line: the text and the value printed with it. *)
Line(s, x) == [s |-> s, v |-> x]

(* ------------------------------ objects -------------------------------- *)

NoObj ==
  [cls |-> "none", fn |-> "", stop |-> None, next_item |-> None,
   state |-> "na", pc |-> "", index |-> 0, total |-> 0, stopped |-> FALSE]

(* RangeIterator.__init__ with its two checks in the other order *)
RangeIterator__init___value_first(stop) ==
  IF stop.t \in {"int", "float"} /\ stop.v < 0
  THEN [self |-> NoObj, res |-> Raise("ValueError")]
  ELSE IF ~isinstance_int(stop) THEN [self |-> NoObj, res |-> Raise("TypeError")]
  ELSE [self |-> [NoObj EXCEPT !.cls = "RangeIterator", !.stop = stop,
                     !.next_item = IF stop.v > 0 THEN PyInt(0)
                                   ELSE StopIterationMarker],
        res |-> Return(None)]

(* RangeIterator.__init__ *)
RangeIterator__init__(stop) ==
  IF ~isinstance_int(stop) THEN [self |-> NoObj, res |-> Raise("TypeError")]
  ELSE IF stop.v < 0 THEN [self |-> NoObj, res |-> Raise("ValueError")]
  ELSE [self |-> [NoObj EXCEPT !.cls = "RangeIterator", !.stop = stop,
                     !.next_item = IF stop.v > 0 THEN PyInt(0)
                                   ELSE StopIterationMarker],
        res |-> Return(None)]

(* RangeIterator.__next__ that rewinds to the first item when exhausted *)
RangeIterator__next___rewind(self) ==
  LET item == self.next_item IN
  IF isinstance_StopIteration(item)
  THEN [self |-> [self EXCEPT !.next_item = PyInt(0)],
        res |-> RaiseStopIteration(None)]
  ELSE LET n == item.v + 1 IN
       [self |-> [self EXCEPT !.next_item =
                     IF n >= self.stop.v THEN StopIterationMarker
                     ELSE PyInt(n)],
        res |-> Return(item)]

(* RangeIterator.__next__ that tests `self.next_item > self.stop` *)
RangeIterator__next___inclusive(self) ==
  LET item == self.next_item IN
  IF isinstance_StopIteration(item)
  THEN [self |-> self, res |-> RaiseStopIteration(None)]
  ELSE LET n == item.v + 1 IN
       [self |-> [self EXCEPT !.next_item =
                     IF n > self.stop.v THEN StopIterationMarker
                     ELSE PyInt(n)],
        res |-> Return(item)]

(* RangeIterator.__next__ that forgets `self.next_item += 1` *)
RangeIterator__next___peek(self) ==
  LET item == self.next_item IN
  IF isinstance_StopIteration(item)
  THEN [self |-> self, res |-> RaiseStopIteration(None)]
  ELSE [self |-> [self EXCEPT !.next_item =
                     IF item.v >= self.stop.v THEN StopIterationMarker
                     ELSE item],
        res |-> Return(item)]

(* RangeIterator.__next__ *)
RangeIterator__next__(self) ==
  LET item == self.next_item IN
  IF isinstance_StopIteration(item)
  THEN [self |-> self, res |-> RaiseStopIteration(None)]
  ELSE LET n == item.v + 1 IN
       [self |-> [self EXCEPT !.next_item =
                     IF n >= self.stop.v THEN StopIterationMarker
                     ELSE PyInt(n)],
        res |-> Return(item)]

(* --------------------------- generator frames -------------------------- *)

(* A generator object: fn is the generator function, state is created      *)
(* (body not started), suspended (paused at the yield named by pc) or      *)
(* closed (finished); index holds the local `index` / `i`.                 *)
NewGenerator(fn, stop) ==
  [NoObj EXCEPT !.cls = "generator", !.fn = fn, !.stop = stop,
                !.state = "created", !.pc = "start"]

(* How a resumption of the body ends: at a yield, by return, by raising.   *)
BYield(g, pc, x, o) ==
  [g |-> [g EXCEPT !.state = "suspended", !.pc = pc],
   r |-> [k |-> "yield", exc |-> "", val |-> x, id |-> 0], out |-> o]
BReturn(g, x, o) ==
  [g |-> [g EXCEPT !.state = "closed", !.pc = "end"],
   r |-> [k |-> "return", exc |-> "", val |-> x, id |-> 0], out |-> o]
BRaise(g, e, o) ==
  [g |-> [g EXCEPT !.state = "closed", !.pc = "end"],
   r |-> [k |-> "raise", exc |-> e, val |-> None, id |-> 0], out |-> o]

(* the exception thrown in by inp leaves the body unhandled (or re-raised) *)
BReraise(g, inp, o) ==
  [g |-> [g EXCEPT !.state = "closed", !.pc = "end"],
   r |-> [k |-> "raise", exc |-> inp.e, val |-> None, id |-> inp.id],
   out |-> o]

(* What the body is resumed with: a sent value or a thrown exception.      *)
Sent(x) == [k |-> "send", v |-> x, e |-> "", id |-> 0]
Thrown(e) == [k |-> "throw", v |-> None, e |-> e, id |-> 0]

(* throw(type, value, traceback) with value the exception instance id *)
ThrownObj(e, id) == [k |-> "throw", v |-> None, e |-> e, id |-> id]

(* the wrapper, with the body's first statement run by the call too *)
range_generator_function_eager(stop) ==
  IF ~isinstance_int(stop)
  THEN [self |-> NoObj, res |-> Raise("TypeError"),
        out |-> <<Line("Running line 1", None)>>]
  ELSE IF stop.v < 0
  THEN [self |-> NoObj, res |-> Raise("ValueError"),
        out |-> <<Line("Running line 1", None)>>]
  ELSE [self |-> NewGenerator("_range_generator_function", stop),
        res |-> Return(None),
        out |-> <<Line("Running line 1", None), Line("Running line 2", None),
                  Line("Running line 4", None),
                  Line("Running line 3", None)>>]

(* range_generator_function: the wrapper, run at once by the call *)
range_generator_function(stop) ==
  IF ~isinstance_int(stop)
  THEN [self |-> NoObj, res |-> Raise("TypeError"),
        out |-> <<Line("Running line 1", None)>>]
  ELSE IF stop.v < 0
  THEN [self |-> NoObj, res |-> Raise("ValueError"),
        out |-> <<Line("Running line 1", None)>>]
  ELSE [self |-> NewGenerator("_range_generator_function", stop),
        res |-> Return(None),
        out |-> <<Line("Running line 1", None), Line("Running line 2", None),
                  Line("Running line 3", None)>>]

(* the loop written `while index <= stop:` *)
range_while_inclusive(g, index, o) ==
  IF index <= g.stop.v
  THEN BYield([g EXCEPT !.index = index], "yield index", PyInt(index),
              o \o <<Line("Running line 5 with index", PyInt(index))>>)
  ELSE BReturn([g EXCEPT !.index = index], None,
               o \o <<Line("Running line 7 with index", PyInt(index))>>)

(* the while loop with `yield index` moved below line 6 *)
range_while_late_yield(g, index, o) ==
  IF index < g.stop.v
  THEN BYield([g EXCEPT !.index = index], "yield index", PyInt(index),
              o \o <<Line("Running line 5 with index", PyInt(index)),
                     Line("Running line 6 with index", PyInt(index))>>)
  ELSE BReturn([g EXCEPT !.index = index], None,
               o \o <<Line("Running line 7 with index", PyInt(index))>>)

(* `while index < stop:` of _range_generator_function, entered with index *)
range_while(g, index, o) ==
  IF index < g.stop.v
  THEN BYield([g EXCEPT !.index = index], "yield index", PyInt(index),
              o \o <<Line("Running line 5 with index", PyInt(index))>>)
  ELSE BReturn([g EXCEPT !.index = index], None,
               o \o <<Line("Running line 7 with index", PyInt(index))>>)

(* _range_generator_function: the body, one resumption *)
_range_generator_function(g, inp) ==
  IF g.pc = "start"
  THEN range_while(g, 0, <<Line("Running line 4", None)>>)
  ELSE IF inp.k = "throw" THEN BReraise(g, inp, <<>>)
  ELSE range_while(g, g.index + 1,
                   <<Line("Running line 6 with index", PyInt(g.index))>>)

(* the body with a bare `return` (the generator_function of the cell before) *)
generator_function_bare_return(g, inp) ==
  IF g.pc = "start" THEN BYield(g, "yield 0", PyInt(0), <<>>)
  ELSE IF inp.k = "throw" THEN BReraise(g, inp, <<>>)
  ELSE BReturn(g, None, <<>>)

(* generator_function_that_returns_a_value: yield 0; return 'return_value' *)
generator_function_that_returns_a_value(g, inp) ==
  IF g.pc = "start" THEN BYield(g, "yield 0", PyInt(0), <<>>)
  ELSE IF inp.k = "throw" THEN BReraise(g, inp, <<>>)
  ELSE BReturn(g, STR_return_value, <<>>)

(* the send example with the sent value dropped: the yield expression     *)
(* always evaluates to None                                                *)
generator_function_send_dropped(g, inp) ==
  IF g.pc = "start" THEN BYield(g, "yield 0", PyInt(0), <<>>)
  ELSE IF inp.k = "throw" THEN BReraise(g, inp, <<>>)
  ELSE IF g.pc = "yield 0"
  THEN BYield(g, "yield 1", PyInt(1), <<Line("print", None)>>)
  ELSE BReturn(g, None, <<Line("print", None)>>)

(* generator_function of the send example:                                 *)
(*   print((yield 0)); print((yield 1))                                    *)
generator_function_send(g, inp) ==
  IF g.pc = "start" THEN BYield(g, "yield 0", PyInt(0), <<>>)
  ELSE IF inp.k = "throw" THEN BReraise(g, inp, <<>>)
  ELSE IF g.pc = "yield 0"
  THEN BYield(g, "yield 1", PyInt(1), <<Line("print", inp.v)>>)
  ELSE BReturn(g, None, <<Line("print", inp.v)>>)

(* `for i in range(2):` of the throw example, entered to fetch item i *)
throw_for(g, i, o) ==
  IF i < LoopN
  THEN BYield([g EXCEPT !.index = i], "yield i", PyInt(i), o)
  ELSE BReturn(g, PyInt(g.index), o)

(* the throw example whose `except Exception` handler continues the loop   *)
(* instead of re-raising                                                   *)
generator_function_throw_swallow(g, inp) ==
  IF g.pc = "start" THEN throw_for(g, 0, <<>>)
  ELSE IF inp.k = "send" THEN throw_for(g, g.index + 1, <<>>)
  ELSE IF inp.e = "ExpectedError"
  THEN throw_for(g, g.index + 1, <<Line("Caught exception", None)>>)
  ELSE IF isinstance_Exception(inp.e)
  THEN throw_for(g, g.index + 1, <<Line("Did not catch exception", None)>>)
  ELSE BReraise(g, inp, <<>>)

(* the throw example whose `except ExpectedError` handler yields the same  *)
(* item again instead of continuing with the next one                      *)
generator_function_throw_retry(g, inp) ==
  IF g.pc = "start" THEN throw_for(g, 0, <<>>)
  ELSE IF inp.k = "send" THEN throw_for(g, g.index + 1, <<>>)
  ELSE IF inp.e = "ExpectedError"
  THEN throw_for(g, g.index, <<Line("Caught exception", None)>>)
  ELSE IF isinstance_Exception(inp.e)
  THEN BReraise(g, inp, <<Line("Did not catch exception", None)>>)
  ELSE BReraise(g, inp, <<>>)

(* generator_function of the throw example *)
generator_function_throw(g, inp) ==
  IF g.pc = "start" THEN throw_for(g, 0, <<>>)
  ELSE IF inp.k = "send" THEN throw_for(g, g.index + 1, <<>>)
  ELSE IF inp.e = "ExpectedError"
  THEN throw_for(g, g.index + 1, <<Line("Caught exception", None)>>)
  ELSE IF isinstance_Exception(inp.e)
  THEN BReraise(g, inp, <<Line("Did not catch exception", None)>>)
  ELSE BReraise(g, inp, <<>>)

(* the first close example without the `raise` in its handler *)
generator_function_close_no_reraise(g, inp) ==
  IF g.pc = "start" THEN BYield(g, "yield", None, <<>>)
  ELSE IF g.pc = "yield"
  THEN IF inp.k = "throw"
       THEN BYield(g, "yield 1", PyInt(1),
                   <<Line("traceback.print_exc", None),
                     Line("About to yield 1", None)>>)
       ELSE BYield(g, "yield 1", PyInt(1),
                   <<Line("About to yield 1", None)>>)
  ELSE IF inp.k = "throw" THEN BReraise(g, inp, <<>>)
  ELSE BReturn(g, None, <<>>)

(* generator_function of the first close example:                          *)
(*   try: yield / except: print_exc(); raise / print(...); yield 1         *)
generator_function_close(g, inp) ==
  IF g.pc = "start" THEN BYield(g, "yield", None, <<>>)
  ELSE IF g.pc = "yield"
  THEN IF inp.k = "throw"
       THEN BReraise(g, inp, <<Line("traceback.print_exc", None)>>)
       ELSE BYield(g, "yield 1", PyInt(1),
                   <<Line("About to yield 1", None)>>)
  ELSE IF inp.k = "throw" THEN BReraise(g, inp, <<>>)
  ELSE BReturn(g, None, <<>>)

(* the second close example with a bare `raise` in its handler *)
generator_function_close_reraise(g, inp) ==
  IF g.pc = "start" THEN BYield(g, "yield 0", PyInt(0), <<>>)
  ELSE IF inp.k = "throw" THEN BReraise(g, inp, <<>>)
  ELSE BReturn(g, None, <<>>)

(* generator_function of the second close example:                         *)
(*   try: yield 0 / except: raise KeyError('key')                          *)
generator_function_close_KeyError(g, inp) ==
  IF g.pc = "start" THEN BYield(g, "yield 0", PyInt(0), <<>>)
  ELSE IF inp.k = "throw" THEN BRaise(g, "KeyError", <<>>)
  ELSE BReturn(g, None, <<>>)

(* The generator the close() paragraph calls illegal: one that yields a    *)
(* new value while handling GeneratorExit.                                 *)
(*   try: yield 0 / except GeneratorExit: yield 1                          *)
generator_function_yield_in_close(g, inp) ==
  IF g.pc = "start" THEN BYield(g, "yield 0", PyInt(0), <<>>)
  ELSE IF g.pc = "yield 0"
  THEN IF inp.k = "throw"
       THEN IF inp.e = "GeneratorExit"
            THEN BYield(g, "yield 1", PyInt(1), <<>>)
            ELSE BReraise(g, inp, <<>>)
       ELSE BReturn(g, None, <<>>)
  ELSE IF inp.k = "throw" THEN BReraise(g, inp, <<>>)
  ELSE BReturn(g, None, <<>>)

(* ------------------------- the adder's inputs -------------------------- *)

(* the flat lists and tuples of the cells: (), (10,), (1, 2, 3) *)
ListItems == << <<>>, <<10>>, <<1, 2, 3>> >>

(* what is sent into an adder: the list or tuple ListItems[i], range(n),   *)
(* the tuple (range(n),), and a generator expression                       *)
(* (adder.send(n) for _ in range(1)) over the adder it is sent to          *)
PyList(i) == [t |-> "list", v |-> i]
PyTuple(i) == [t |-> "tuple", v |-> i]
PyRange(n) == [t |-> "range", v |-> n]
PyTupleOfRange(n) == [t |-> "tuple_of_range", v |-> n]
Reentrant(n) == [t |-> "reentrant", v |-> n]

(* a tuple or list of more than one element whose first element is the    *)
(* tuple ListItems[i]: ((1, 2, 3), 4, 5) and [(10,), 4, 5]                 *)
RestItems == <<4, 5>>
PyTupleWithRest(i) == [t |-> "tuple_with_rest", v |-> i]
PyListWithRest(i) == [t |-> "list_with_rest", v |-> i]

isinstance_list_tuple(x) ==
  x.t \in {"list", "tuple", "tuple_of_range", "tuple_with_rest",
           "list_with_rest"}
isinstance_Iterable(x) ==
  x.t \in {"list", "tuple", "tuple_of_range", "tuple_with_rest",
           "list_with_rest", "range", "reentrant", "str"}

(* the elements of a list, tuple or range, in order *)
elements(x) ==
  CASE x.t \in {"list", "tuple"} ->
         [j \in 1..Len(ListItems[x.v]) |-> PyInt(ListItems[x.v][j])]
    [] x.t = "tuple_of_range" -> <<PyRange(x.v)>>
    [] x.t \in {"tuple_with_rest", "list_with_rest"} ->
         <<PyTuple(x.v)>> \o [j \in 1..Len(RestItems) |-> PyInt(RestItems[j])]
    [] x.t = "range" -> [j \in 1..x.v |-> PyInt(j - 1)]

(* if not isinstance(integers, (list, tuple)): integers = [integers] *)
as_list(x) == IF isinstance_list_tuple(x) THEN elements(x) ELSE <<x>>

(* a test that takes the first element only when it is the only one *)
first_is_iterable_only_element(l) == Len(l) = 1 /\ isinstance_Iterable(l[1])

(* if integers and isinstance(integers[0], collections.Iterable): the      *)
(* first element is what gets summed                                       *)
first_is_iterable(l) == l # <<>> /\ isinstance_Iterable(l[1])

(* sum(integers) for a sequence of elements: TypeError unless all are ints *)
RECURSIVE sum_ints(_)
sum_ints(l) == IF l = <<>> THEN 0 ELSE l[1].v + sum_ints(Tail(l))

sum(l) ==
  IF \A j \in 1..Len(l) : isinstance_int(l[j])
  THEN Return(PyInt(sum_ints(l))) ELSE Raise("TypeError")

(* send, throw or next on a generator whose body is running:               *)
(* ValueError('generator already executing'), the body is not touched      *)
gen_send_ex_running(g, inp) ==
  [self |-> g, out |-> <<>>, res |-> Raise("ValueError")]

(* the rest of the loop with `total = sum(integers)` for `total +=` *)
adder_add_overwrite(g, x, s) ==
  IF s.k = "raise"
  THEN BRaise(g, s.exc, <<Line("Adder received", x)>>)
  ELSE BYield([g EXCEPT !.total = s.val.v], "yield total", PyInt(s.val.v),
              <<Line("Adder received", x),
                Line("At start of adder loop, current total is",
                     PyInt(s.val.v))>>)

(* the part of adder_function's loop after the yield, with integers = x:   *)
(* s is the outcome of sum(integers)                                       *)
adder_add(g, x, s) ==
  IF s.k = "raise"
  THEN BRaise(g, s.exc, <<Line("Adder received", x)>>)
  ELSE BYield([g EXCEPT !.total = g.total + s.val.v], "yield total",
              PyInt(g.total + s.val.v),
              <<Line("Adder received", x),
                Line("At start of adder loop, current total is",
                     PyInt(g.total + s.val.v))>>)

(* sum(integers) over the generator expression: its one element is what   *)
(* the send it makes returns; an exception of that send leaves sum()       *)
reentrant_sum(inner) ==
  IF inner.k = "raise" THEN inner ELSE sum(<<inner.val>>)

(* sum(integers) inside adder_function: a generator expression that sends  *)
(* into this adder does so while the body is running                       *)
adder_sum(g, x) ==
  IF ~first_is_iterable(as_list(x)) THEN sum(as_list(x))
  ELSE IF as_list(x)[1].t = "reentrant"
  THEN reentrant_sum(gen_send_ex_running([g EXCEPT !.state = "running"],
                                         Sent(PyInt(as_list(x)[1].v))).res)
  ELSE IF as_list(x)[1].t = "str" THEN Raise("TypeError")
  ELSE sum(elements(as_list(x)[1]))

(* adder_function: the body, one resumption *)
adder_function(g, inp) ==
  IF g.pc = "start"
  THEN BYield(g, "yield total", PyInt(g.total),
              <<Line("At start of adder loop, current total is",
                     PyInt(g.total))>>)
  ELSE IF inp.k = "throw"
  THEN (IF isinstance_Exception(inp.e) \/ inp.e = "GeneratorExit"
        THEN BReturn(g, PyInt(g.total),
                     <<Line("Adder received exception and is returning with final total",
                            PyInt(g.total))>>)
        ELSE BReraise(g, inp, <<>>))
  ELSE adder_add(g, inp.v, adder_sum(g, inp.v))

(* ---------- generator functions handed to @contextmanager ------------- *)

(* what such a generator yields and what the cells' strings are *)
STR_value == PyStr(4)
STR_didnt_yield == PyStr(5)
STR_didnt_stop == PyStr(6)
STR_didnt_stop_after_throw == PyStr(7)

PyBool(b) == [t |-> "bool", v |-> IF b THEN 1 ELSE 0]

(* <setup>; try: yield <value>; finally: <cleanup> *)
some_generator(g, inp) ==
  IF g.pc = "start"
  THEN BYield(g, "yield value", STR_value, <<Line("setup", None)>>)
  ELSE IF inp.k = "throw"
  THEN BReraise(g, inp, <<Line("cleanup", None)>>)
  ELSE BReturn(g, None, <<Line("cleanup", None)>>)

(* <setup>; yield <value>; <cleanup> -- no try around the yield *)
unguarded_generator(g, inp) ==
  IF g.pc = "start"
  THEN BYield(g, "yield value", STR_value, <<Line("setup", None)>>)
  ELSE IF inp.k = "throw"
  THEN BReraise(g, inp, <<>>)
  ELSE BReturn(g, None, <<Line("cleanup", None)>>)

(* try: yield <value>; except: pass *)
suppressing_generator(g, inp) ==
  IF g.pc = "start" THEN BYield(g, "yield value", STR_value, <<>>)
  ELSE BReturn(g, None, <<>>)

(* try: yield <value>; except: raise ValueError *)
translating_generator(g, inp) ==
  IF g.pc = "start" THEN BYield(g, "yield value", STR_value, <<>>)
  ELSE IF inp.k = "throw" THEN BRaise(g, "ValueError", <<>>)
  ELSE BReturn(g, None, <<>>)

(* try: yield <value>; except: raise StopIteration *)
stopping_generator(g, inp) ==
  IF g.pc = "start" THEN BYield(g, "yield value", STR_value, <<>>)
  ELSE IF inp.k = "throw" THEN BRaise(g, "StopIteration", <<>>)
  ELSE BReturn(g, None, <<>>)

(* <setup>; return -- no yield *)
no_yield_generator(g, inp) == BReturn(g, None, <<Line("setup", None)>>)

(* while True: try: yield <value>; except: pass *)
never_stopping_generator(g, inp) == BYield(g, "yield value", STR_value, <<>>)

ContextManagerFunctions ==
  {"some_generator", "suppressing_generator", "translating_generator",
   "stopping_generator", "no_yield_generator", "never_stopping_generator",
   "unguarded_generator"}

GeneratorFunctions ==
  {"generator_function_that_returns_a_value", "generator_function_send",
   "generator_function_throw", "generator_function_close",
   "generator_function_close_KeyError", "generator_function_yield_in_close"}

(* Run the body of g for one resumption. *)
Body(g, inp) ==
  CASE g.fn = "_range_generator_function" -> _range_generator_function(g, inp)
    [] g.fn = "generator_function_that_returns_a_value" ->
         generator_function_that_returns_a_value(g, inp)
    [] g.fn = "generator_function_send" -> generator_function_send(g, inp)
    [] g.fn = "generator_function_throw" -> generator_function_throw(g, inp)
    [] g.fn = "generator_function_close" -> generator_function_close(g, inp)
    [] g.fn = "generator_function_close_KeyError" ->
         generator_function_close_KeyError(g, inp)
    [] g.fn = "generator_function_yield_in_close" ->
         generator_function_yield_in_close(g, inp)
    [] g.fn = "adder_function" -> adder_function(g, inp)
    [] g.fn = "some_generator" -> some_generator(g, inp)
    [] g.fn = "suppressing_generator" -> suppressing_generator(g, inp)
    [] g.fn = "translating_generator" -> translating_generator(g, inp)
    [] g.fn = "stopping_generator" -> stopping_generator(g, inp)
    [] g.fn = "no_yield_generator" -> no_yield_generator(g, inp)
    [] g.fn = "never_stopping_generator" -> never_stopping_generator(g, inp)
    [] g.fn = "unguarded_generator" -> unguarded_generator(g, inp)

(* ------------------- the generator protocol methods -------------------- *)

(* Resume g with inp (the interpreter's shared path of __next__, send and  *)
(* throw): a finished generator re-raises StopIteration without a value    *)
(* (or the thrown exception); a value yielded is returned; `return x`      *)
(* becomes StopIteration(x); an exception raised by the body propagates.   *)
gen_send_ex(g, inp) ==
  IF g.state = "running" THEN gen_send_ex_running(g, inp)
  ELSE IF g.state = "closed"
  THEN [self |-> g, out |-> <<>>,
        res |-> IF inp.k = "throw" THEN RaiseObj(inp.e, inp.id)
                ELSE RaiseStopIteration(None)]
  ELSE IF g.state = "created" /\ inp.k = "send" /\ inp.v # None
  THEN [self |-> g, out |-> <<>>, res |-> Raise("TypeError")]
  ELSE IF g.state = "created" /\ inp.k = "throw"
  THEN [self |-> [g EXCEPT !.state = "closed", !.pc = "end"], out |-> <<>>,
        res |-> RaiseObj(inp.e, inp.id)]
  ELSE LET b == Body(g, inp) IN
       [self |-> b.g, out |-> b.out,
        res |-> CASE b.r.k = "yield" -> Return(b.r.val)
                  [] b.r.k = "return" -> RaiseStopIteration(b.r.val)
                  [] b.r.k = "raise" -> RaiseObj(b.r.exc, b.r.id)]

(* generator.send(value) *)
gen_send(g, x) == gen_send_ex(g, Sent(x))

(* generator.__next__(): "actually equivalent to send(None)" *)
gen_next(g) == gen_send_ex(g, Sent(None))

(* generator.throw(exc) *)
gen_throw(g, e) == gen_send_ex(g, Thrown(e))

(* close() that hands back whatever the resumption gave: a value yielded   *)
(* while handling GeneratorExit is returned to the caller                  *)
gen_close_returns_yielded(g) ==
  IF g.state # "suspended"
  THEN [self |-> [g EXCEPT !.state = "closed", !.pc = "end"], out |-> <<>>,
        res |-> Return(None)]
  ELSE LET t == gen_send_ex(g, Thrown("GeneratorExit")) IN
       [self |-> t.self, out |-> t.out,
        res |-> IF t.res.k = "return" THEN t.res
                ELSE IF t.res.exc \in {"StopIteration", "GeneratorExit"}
                THEN Return(None)
                ELSE t.res]

(* generator.close() *)
gen_close(g) ==
  IF g.state # "suspended"
  THEN [self |-> [g EXCEPT !.state = "closed", !.pc = "end"], out |-> <<>>,
        res |-> Return(None)]
  ELSE LET t == gen_send_ex(g, Thrown("GeneratorExit")) IN
       [self |-> t.self, out |-> t.out,
        res |-> IF t.res.k = "return" THEN Raise("RuntimeError")
                ELSE IF t.res.exc \in {"StopIteration", "GeneratorExit"}
                THEN Return(None)
                ELSE t.res]

(* iterator.__next__() of either kind of object *)
Next__(o) ==
  IF o.cls = "RangeIterator"
  THEN LET n == RangeIterator__next__(o) IN
       [self |-> n.self, out |-> <<>>, res |-> n.res]
  ELSE gen_next(o)

(* next(iterator, default) that does not catch StopIteration *)
next_default_uncaught(o, default) ==
  LET n == Next__(o) IN
  [self |-> n.self, out |-> n.out, inner |-> n.res, res |-> n.res]

(* value = next(iterator, default):                                        *)
(*   try: value = iterator.__next__() / except StopIteration: value = default *)
next_default(o, default) ==
  LET n == Next__(o) IN
  [self |-> n.self, out |-> n.out, inner |-> n.res,
   res |-> IF IsStopIteration(n.res) THEN Return(default) ELSE n.res]

(* ------------------------------ the state ------------------------------ *)

(* Arguments tried for stop, values sent, defaults and exceptions thrown.  *)
StopArgs ==
  {PyInt(n) : n \in -1..MaxStop} \cup {STR_not_an_int, FLOAT_negative}
SendValues == {None, STR_print_this}
Defaults == {PyInt(99)}
Thrown_Exceptions == {"ExpectedError", "KeyError"}

NoCtor == [called |-> FALSE, cls |-> "", arg |-> None, res |-> Return(None)]

Init ==
  /\ obj = NoObj
  /\ log = <<>>
  /\ out = <<>>
  /\ ctor = NoCtor
  /\ iters = <<>>

(* One call on the object, as recorded in log. *)
Entry(op, arg, e, r, inner) ==
  [op |-> op, arg |-> arg, exc |-> e, pre |-> obj, post |-> r.self,
   res |-> r.res, inner |-> inner, outs |-> r.out]

Record(op, arg, e, r, inner) ==
  /\ obj' = r.self
  /\ log' = Append(log, Entry(op, arg, e, r, inner))
  /\ out' = out \o r.out
  /\ UNCHANGED <<ctor, aux>>

CanCall == obj.cls # "none" /\ Len(log) < MaxCalls

(* range_iterator = RangeIterator(stop) *)
NewRangeIterator ==
  /\ ~ctor.called
  /\ \E stop \in StopArgs :
       LET c == RangeIterator__init__(stop) IN
       /\ obj' = c.self
       /\ ctor' = [called |-> TRUE, cls |-> "RangeIterator", arg |-> stop,
                   res |-> c.res]
       /\ UNCHANGED <<log, out, aux>>

(* range_generator = range_generator_function(stop) *)
NewRangeGenerator ==
  /\ ~ctor.called
  /\ \E stop \in StopArgs :
       LET c == range_generator_function(stop) IN
       /\ obj' = c.self
       /\ out' = out \o c.out
       /\ ctor' = [called |-> TRUE, cls |-> "range_generator_function",
                   arg |-> stop, res |-> c.res]
       /\ UNCHANGED <<log, aux>>

(* generator = generator_function(): no statement of the body runs *)
CallGeneratorFunction ==
  /\ ~ctor.called
  /\ \E fn \in GeneratorFunctions :
       /\ obj' = NewGenerator(fn, None)
       /\ ctor' = [called |-> TRUE, cls |-> fn, arg |-> None,
                   res |-> Return(None)]
       /\ UNCHANGED <<log, out, aux>>

(* next(obj) *)
CallNext ==
  /\ CanCall
  /\ LET r == Next__(obj) IN Record("next", None, "", r, r.res)

(* next(obj, default) *)
CallNextDefault ==
  /\ CanCall
  /\ \E d \in Defaults :
       LET r == next_default(obj, d) IN
       Record("next_default", d, "", r, r.inner)

(* generator.send(x) *)
CallSend ==
  /\ CanCall
  /\ obj.cls = "generator"
  /\ \E x \in SendValues :
       LET r == gen_send(obj, x) IN Record("send", x, "", r, r.res)

(* generator.throw(e) *)
CallThrow ==
  /\ CanCall
  /\ obj.cls = "generator"
  /\ \E e \in Thrown_Exceptions :
       LET r == gen_throw(obj, e) IN Record("throw", None, e, r, r.res)

(* generator.close() *)
CallClose ==
  /\ CanCall
  /\ obj.cls = "generator"
  /\ LET r == gen_close(obj) IN Record("close", None, "", r, r.res)

Next ==
  \/ NewRangeIterator
  \/ NewRangeGenerator
  \/ CallGeneratorFunction
  \/ CallNext
  \/ CallNextDefault
  \/ CallSend
  \/ CallThrow
  \/ CallClose

Spec == Init /\ [][Next]_vars

(* ----------------------------- properties ------------------------------ *)

Calls == 1..Len(log)

(* the first k calls were all plain next() calls *)
AllNext(k) == \A j \in 1..k : log[j].op = "next"

IsRangeObject == ctor.cls \in {"RangeIterator", "range_generator_function"}

(* C1: once a next() call on a RangeIterator, a range generator or a       *)
(* generator of generator_function_that_returns_a_value has raised         *)
(* StopIteration, every later next() on the same object raises             *)
(* StopIteration too, whatever was called in between.                      *)
C1_TerminationIsStable ==
  ctor.cls \in {"RangeIterator", "range_generator_function",
                "generator_function_that_returns_a_value"}
  => \A j \in Calls : \A k \in Calls :
       (j < k /\ log[j].op = "next" /\ IsStopIteration(log[j].res)
              /\ log[k].op = "next")
       => IsStopIteration(log[k].res)

(* a RangeIterator that produced an item, then raised StopIteration on     *)
(* three next() calls                                                      *)
C1_Witness ==
  /\ ctor.cls = "RangeIterator"
  /\ \E i \in Calls : log[i].op = "next" /\ log[i].res.k = "return"
  /\ \E j \in Calls : \E k \in Calls : \E l \in Calls :
       /\ j < k /\ k < l
       /\ \A m \in {j, k, l} :
            log[m].op = "next" /\ IsStopIteration(log[m].res)

(* C2: for stop >= 0, the first stop calls of next() on RangeIterator(stop) *)
(* and on range_generator_function(stop) return 0, 1, ..., stop-1 in order  *)
(* and call stop+1 raises StopIteration.                                    *)
C2_RangeSequence ==
  (IsRangeObject /\ obj.cls # "none")
  => \A k \in Calls :
       AllNext(k) =>
         /\ k <= ctor.arg.v => log[k].res = Return(PyInt(k - 1))
         /\ k = ctor.arg.v + 1 => IsStopIteration(log[k].res)

(* a range generator with stop >= 2 read to its StopIteration by next()    *)
C2_Witness ==
  /\ ctor.cls = "range_generator_function"
  /\ obj.cls # "none"
  /\ ctor.arg.v >= 2
  /\ Len(log) = ctor.arg.v + 1
  /\ AllNext(Len(log))
  /\ IsStopIteration(log[Len(log)].res)

(* C3: for `yield 0; return v` the first next() returns 0, the second      *)
(* raises StopIteration carrying v, and every later next() raises          *)
(* StopIteration carrying None: v is delivered to one call only.           *)
C3_ReturnValueDeliveredOnce ==
  ctor.cls = "generator_function_that_returns_a_value"
  => /\ \A k \in Calls :
          AllNext(k) =>
            /\ k = 1 => log[k].res = Return(PyInt(0))
            /\ k = 2 => log[k].res = RaiseStopIteration(STR_return_value)
            /\ k > 2 => log[k].res = RaiseStopIteration(None)
     /\ \A j \in Calls : \A k \in Calls :
          (j < k /\ IsStopIteration(log[j].res) /\ log[k].op = "next")
          => log[k].res = RaiseStopIteration(None)

(* three next() calls: 0, StopIteration('return_value'), StopIteration()   *)
C3_Witness ==
  /\ ctor.cls = "generator_function_that_returns_a_value"
  /\ Len(log) >= 3
  /\ AllNext(3)
  /\ log[2].res = RaiseStopIteration(STR_return_value)
  /\ log[3].res = RaiseStopIteration(None)

(* the object has finished: next() on it raises StopIteration at once      *)
Exhausted(o) ==
  IF o.cls = "RangeIterator" THEN isinstance_StopIteration(o.next_item)
  ELSE o.state = "closed"

(* the object still has an item to produce *)
HasItem(o) ==
  IF o.cls = "RangeIterator" THEN ~isinstance_StopIteration(o.next_item)
  ELSE \/ o.state = "created" /\ o.stop.v > 0
       \/ o.state = "suspended" /\ o.index + 1 < o.stop.v

(* the item a RangeIterator or range generator produces next *)
NextItem(o) ==
  IF o.cls = "RangeIterator" THEN o.next_item
  ELSE IF o.state = "created" THEN PyInt(0) ELSE PyInt(o.index + 1)

(* next(it, default) on an exhausted object: default, no body statement,   *)
(* still exhausted, later next() raises StopIteration                      *)
DefaultOnExhausted(k) ==
  /\ log[k].res = Return(log[k].arg)
  /\ log[k].outs = <<>>
  /\ Exhausted(log[k].post)
  /\ \A j \in Calls :
       (j > k /\ log[j].op = "next") => IsStopIteration(log[j].res)

Yielded(e) == e.op # "close" /\ e.inner.k = "return"

(* C5: throw(KeyError) into the throw example's generator paused at a      *)
(* yield raises KeyError to the caller and finishes the generator: it      *)
(* yields nothing afterwards and every later next() raises StopIteration.  *)
C5_UnguardedThrowPropagates ==
  ctor.cls = "generator_function_throw"
  => \A k \in Calls :
       (log[k].op = "throw" /\ log[k].exc = "KeyError"
          /\ log[k].pre.state = "suspended")
       => /\ log[k].res = Raise("KeyError")
          /\ log[k].post.state = "closed"
          /\ \A j \in Calls :
               j > k => /\ ~Yielded(log[j])
                        /\ log[j].op = "next" => IsStopIteration(log[j].res)

(* throw(KeyError) at a yield, followed by a next() *)
C5_Witness ==
  /\ ctor.cls = "generator_function_throw"
  /\ \E k \in Calls : \E j \in Calls :
       /\ log[k].op = "throw" /\ log[k].exc = "KeyError"
       /\ log[k].pre.state = "suspended"
       /\ log[k].res = Raise("KeyError")
       /\ j > k /\ log[j].op = "next" /\ IsStopIteration(log[j].res)

(* C6: throw(ExpectedError) into the throw example's generator paused at   *)
(* yield i is caught inside: the call returns i+1 when i is not the last   *)
(* loop value and raises StopIteration(i) when it is.                      *)
C6_GuardedThrowRecovers ==
  ctor.cls = "generator_function_throw"
  => \A k \in Calls :
       (log[k].op = "throw" /\ log[k].exc = "ExpectedError"
          /\ log[k].pre.state = "suspended")
       => /\ log[k].outs = <<Line("Caught exception", None)>>
          /\ log[k].pre.index < LoopN - 1
               => log[k].res = Return(PyInt(log[k].pre.index + 1))
          /\ log[k].pre.index = LoopN - 1
               => log[k].res = RaiseStopIteration(PyInt(log[k].pre.index))

(* next(), throw(ExpectedError) giving 1, throw(ExpectedError) giving      *)
(* StopIteration(1)                                                        *)
C6_Witness ==
  /\ ctor.cls = "generator_function_throw"
  /\ \E j \in Calls : \E k \in Calls :
       /\ j < k
       /\ log[j].op = "throw" /\ log[j].exc = "ExpectedError"
       /\ log[j].pre.state = "suspended" /\ log[j].res = Return(PyInt(1))
       /\ log[k].op = "throw" /\ log[k].exc = "ExpectedError"
       /\ log[k].pre.state = "suspended"
       /\ log[k].res = RaiseStopIteration(PyInt(1))

(* the lines printed by call e include s *)
Printed(e, s) == \E n \in 1..Len(e.outs) : e.outs[n].s = s

(* C7: close() on the suspended try/except-reraise generator returns None, *)
(* runs no statement after the interrupted yield (`yield 1` is not         *)
(* reached), and leaves the generator terminated: next() raises            *)
(* StopIteration.                                                          *)
C7_CloseReturnsNone ==
  ctor.cls = "generator_function_close"
  => \A k \in Calls :
       (log[k].op = "close" /\ log[k].pre.state = "suspended")
       => /\ log[k].res = Return(None)
          /\ ~Printed(log[k], "About to yield 1")
          /\ log[k].post.state = "closed"
          /\ \A j \in Calls :
               j > k => /\ ~Printed(log[j], "About to yield 1")
                        /\ ~Yielded(log[j])
                        /\ log[j].op = "next" => IsStopIteration(log[j].res)

(* next(), close() at the yield inside try, then next() *)
C7_Witness ==
  /\ ctor.cls = "generator_function_close"
  /\ \E k \in Calls : \E j \in Calls :
       /\ log[k].op = "close" /\ log[k].pre.pc = "yield"
       /\ log[k].outs = <<Line("traceback.print_exc", None)>>
       /\ log[k].res = Return(None)
       /\ j > k /\ log[j].op = "next" /\ IsStopIteration(log[j].res)

(* C8: when the generator raises KeyError while handling the GeneratorExit *)
(* of close(), close() raises that KeyError instead of returning None.     *)
C8_CloseRaisesNewException ==
  ctor.cls = "generator_function_close_KeyError"
  => \A k \in Calls :
       (log[k].op = "close" /\ log[k].pre.state = "suspended")
       => log[k].res = Raise("KeyError")

(* next(), then close() raising KeyError *)
C8_Witness ==
  /\ ctor.cls = "generator_function_close_KeyError"
  /\ \E k \in Calls :
       /\ log[k].op = "close" /\ log[k].pre.pc = "yield 0"
       /\ log[k].res = Raise("KeyError")

C10_SendDeliversValue ==
  ctor.cls = "generator_function_send"
  => \A k \in Calls :
       /\ (log[k].op \in {"next", "send"} /\ log[k].pre.state = "suspended")
          => /\ log[k].outs = <<Line("print", log[k].arg)>>
             /\ log[k].pre.pc = "yield 0" => log[k].res = Return(PyInt(1))
             /\ log[k].pre.pc = "yield 1"
                  => log[k].res = RaiseStopIteration(None)
       /\ (log[k].op = "next" /\ log[k].pre.state = "created")
          => log[k].res = Return(PyInt(0)) /\ log[k].outs = <<>>

(* next() -> 0; send('print this') prints it and returns 1; next() prints  *)
(* None and raises StopIteration                                           *)
C10_Witness ==
  /\ ctor.cls = "generator_function_send"
  /\ Len(log) >= 3
  /\ log[1].op = "next" /\ log[1].res = Return(PyInt(0))
  /\ log[2].op = "send" /\ log[2].arg = STR_print_this
  /\ log[2].outs = <<Line("print", STR_print_this)>>
  /\ log[2].res = Return(PyInt(1))
  /\ log[3].op = "next" /\ log[3].outs = <<Line("print", None)>>
  /\ log[3].res = RaiseStopIteration(None)

(* what range_generator_function prints before it returns the generator *)
WrapperLines ==
  <<Line("Running line 1", None), Line("Running line 2", None),
    Line("Running line 3", None)>>

(* C13: range_generator_function(stop) runs its whole wrapper (lines 1 to  *)
(* 3) at once and no statement of the generator body: "Running line 4" is  *)
(* printed only by the first call that resumes the generator, and a        *)
(* generator that was never advanced has run no body statement.            *)
C13_BodyStartsOnFirstNext ==
  (ctor.cls = "range_generator_function" /\ obj.cls # "none")
  => /\ Len(out) >= 3 /\ SubSeq(out, 1, 3) = WrapperLines
     /\ obj.state = "created" => out = WrapperLines
     /\ \A k \in Calls :
          Printed(log[k], "Running line 4")
          => /\ log[k].pre.state = "created"
             /\ log[k].op \in {"next", "next_default", "send"}
             /\ log[k].outs[1] = Line("Running line 4", None)
             /\ \A j \in 1..(k - 1) : log[j].outs = <<>>
     /\ (Len(log) >= 1 /\ log[1].op = "next")
        => log[1].outs[1] = Line("Running line 4", None)

(* range_generator_function(stop >= 1), then a first next() that prints    *)
(* line 4 and line 5                                                       *)
C13_Witness ==
  /\ ctor.cls = "range_generator_function"
  /\ obj.cls # "none"
  /\ Len(log) >= 1
  /\ log[1].op = "next"
  /\ log[1].outs = <<Line("Running line 4", None),
                     Line("Running line 5 with index", PyInt(0))>>
  /\ SubSeq(out, 1, 3) = WrapperLines

(* C28: RangeIterator(stop) and range_generator_function(stop) check stop  *)
(* when called, the type before the sign: a stop that is not an int        *)
(* (negative or not) raises TypeError, a negative int raises ValueError;   *)
(* then no object is returned, nothing can be called on it, and            *)
(* range_generator_function has printed line 1 only -- no statement of the *)
(* generator body, and not lines 2 and 3; any other stop is accepted.      *)
C28_StopIsValidatedEagerly ==
  (ctor.called /\ IsRangeObject) =>
    /\ ~isinstance_int(ctor.arg) => ctor.res = Raise("TypeError")
    /\ (isinstance_int(ctor.arg) /\ ctor.arg.v < 0)
       => ctor.res = Raise("ValueError")
    /\ (isinstance_int(ctor.arg) /\ ctor.arg.v >= 0)
       => ctor.res.k = "return" /\ obj.cls # "none"
    /\ ctor.res.k = "raise"
       => /\ obj = NoObj
          /\ log = <<>>
          /\ out = IF ctor.cls = "range_generator_function"
                   THEN <<Line("Running line 1", None)>> ELSE <<>>

C28_Witness ==
  /\ ctor.called /\ ctor.cls = "range_generator_function"
  /\ ctor.arg = FLOAT_negative
  /\ ctor.res = Raise("TypeError")
  /\ out = <<Line("Running line 1", None)>>

(* number of items next() has handed out so far *)
ItemsReturned ==
  Cardinality({k \in Calls : log[k].inner.k = "return"})

InRange(o) ==
  \/ isinstance_StopIteration(o.next_item)
  \/ isinstance_int(o.next_item) /\ 0 <= o.next_item.v
                                 /\ o.next_item.v < o.stop.v

(* C30: a RangeIterator's next_item is always the StopIteration marker or  *)
(* an int in 0..stop-1 (before and after every call); it is the marker     *)
(* exactly when stop items have been returned, otherwise it is the number  *)
(* of items returned; and __next__ never returns a value >= stop.          *)
C30_NextItemInRange ==
  (ctor.cls = "RangeIterator" /\ obj.cls # "none") =>
    /\ InRange(obj)
    /\ isinstance_StopIteration(obj.next_item) <=> ItemsReturned = obj.stop.v
    /\ ~isinstance_StopIteration(obj.next_item)
       => obj.next_item = PyInt(ItemsReturned)
    /\ \A k \in Calls :
         /\ InRange(log[k].pre) /\ InRange(log[k].post)
         /\ log[k].inner.k = "return"
            => /\ isinstance_int(log[k].inner.val)
               /\ 0 <= log[k].inner.val.v
               /\ log[k].inner.val.v < obj.stop.v

(* the last item is the next one *)
C30_Witness ==
  /\ ctor.cls = "RangeIterator" /\ obj.cls # "none"
  /\ obj.stop = PyInt(3)
  /\ obj.next_item = PyInt(2)
  /\ ItemsReturned = 2

(* ======================= RangeIterable and loops ======================= *)

MaxIters == 2

(* a reference to the n-th iterator handed out (0: the iterable itself) *)
PyRef(n) == [t |-> "ref", v |-> n]

(* a RangeIterable.__init__ that validates stop as RangeIterator does *)
RangeIterable__init___validating(stop) ==
  IF RangeIterator__init__(stop).res.k = "raise"
  THEN [self |-> NoObj, res |-> RangeIterator__init__(stop).res]
  ELSE [self |-> [NoObj EXCEPT !.cls = "RangeIterable", !.stop = stop],
        res |-> Return(None)]

(* RangeIterable.__init__: stop is stored, not validated *)
RangeIterable__init__(stop) ==
  [self |-> [NoObj EXCEPT !.cls = "RangeIterable", !.stop = stop],
   res |-> Return(None)]

(* RangeIterable.__iter__ that keeps and hands out one iterator *)
RangeIterable__iter___cached(self, heap) ==
  LET c == RangeIterator__init__(self.stop) IN
  IF c.res.k = "raise" THEN [heap |-> heap, ref |-> 0, res |-> c.res]
  ELSE IF heap # <<>> THEN [heap |-> heap, ref |-> 1, res |-> Return(PyRef(1))]
  ELSE [heap |-> Append(heap, c.self), ref |-> Len(heap) + 1,
        res |-> Return(PyRef(Len(heap) + 1))]

(* RangeIterable.__iter__: return RangeIterator(stop=self.stop), a new     *)
(* object placed after the iterators that exist                            *)
RangeIterable__iter__(self, heap) ==
  LET c == RangeIterator__init__(self.stop) IN
  IF c.res.k = "raise" THEN [heap |-> heap, ref |-> 0, res |-> c.res]
  ELSE [heap |-> Append(heap, c.self), ref |-> Len(heap) + 1,
        res |-> Return(PyRef(Len(heap) + 1))]

(* an __iter__ of RangeIterator that returns a new iterator over the same  *)
(* range instead of self                                                   *)
Iterator__iter___new(t, heap) ==
  [heap |-> Append(heap, RangeIterator__init__(heap[t].stop).self),
   ref |-> Len(heap) + 1, res |-> Return(PyRef(Len(heap) + 1))]

(* collections.Iterator.__iter__ of RangeIterator: return self *)
Iterator__iter__(t, heap) == [heap |-> heap, ref |-> t, res |-> Return(PyRef(t))]

(* iter(x): x is the iterable o (t = 0) or the iterator heap[t] *)
iter_(t, o, heap) ==
  IF t = 0 THEN RangeIterable__iter__(o, heap) ELSE Iterator__iter__(t, heap)

(* The functions handed to the loops: print as in the cells, and loop      *)
(* bodies that print the item and raise when the item is a given one.      *)
LoopBodies == {"print", "stop_at_1", "fail_at_0"}

(* the exception a loop body raises, and the item it raises at *)
body_exc(function) ==
  IF function = "stop_at_1" THEN "StopIteration" ELSE "KeyError"
body_at(function) ==
  IF function = "fail_at_0" THEN PyInt(0) ELSE PyInt(1)

(* function(item): print(item), or print(item) followed by a raise *)
call_function(function, item) ==
  IF function = "print" \/ item # body_at(function)
  THEN [res |-> Return(None), out |-> <<Line("print", item)>>]
  ELSE [res |-> Raise(body_exc(function)), out |-> <<Line("print", item)>>]

(* the `while running:` loop of manual_simplified_for_loop *)
RECURSIVE manual_while(_, _, _, _)
manual_while(ref, heap, function, o) ==
  LET n == RangeIterator__next__(heap[ref])
      h == [heap EXCEPT ![ref] = n.self]
  IN IF IsStopIteration(n.res)
     THEN [heap |-> h, ref |-> ref, res |-> Return(None), out |-> o]
     ELSE IF n.res.k = "raise"
     THEN [heap |-> h, ref |-> ref, res |-> n.res, out |-> o]
     ELSE LET f == call_function(function, n.res.val) IN
          IF f.res.k = "raise"
          THEN [heap |-> h, ref |-> ref, res |-> f.res, out |-> o \o f.out]
          ELSE manual_while(ref, h, function, o \o f.out)

(* manual_simplified_for_loop without its try/except: the StopIteration    *)
(* that ends the iteration reaches the caller                              *)
manual_simplified_for_loop_uncaught(t, o, heap, function) ==
  LET i == iter_(t, o, heap) IN
  IF i.res.k = "raise"
  THEN [heap |-> i.heap, ref |-> 0, res |-> i.res, out |-> <<>>]
  ELSE LET r == manual_while(i.ref, i.heap, function, <<>>) IN
       IF r.res = Return(None)
       THEN [r EXCEPT !.res = RaiseStopIteration(None)] ELSE r

(* manual_simplified_for_loop with function(item) moved inside the try:    *)
(* a StopIteration raised by the loop body ends the loop silently          *)
manual_simplified_for_loop_body_in_try(t, o, heap, function) ==
  LET i == iter_(t, o, heap) IN
  IF i.res.k = "raise"
  THEN [heap |-> i.heap, ref |-> 0, res |-> i.res, out |-> <<>>]
  ELSE LET r == manual_while(i.ref, i.heap, function, <<>>) IN
       IF IsStopIteration(r.res)
       THEN [r EXCEPT !.res = Return(None)] ELSE r

(* manual_simplified_for_loop(iterable, function) *)
manual_simplified_for_loop(t, o, heap, function) ==
  LET i == iter_(t, o, heap) IN
  IF i.res.k = "raise"
  THEN [heap |-> i.heap, ref |-> 0, res |-> i.res, out |-> <<>>]
  ELSE manual_while(i.ref, i.heap, function, <<>>)

(* the `while running:` loop the for statement stands for *)
RECURSIVE for_while(_, _, _, _)
for_while(ref, heap, block, o) ==
  LET n == RangeIterator__next__(heap[ref])
      h == [heap EXCEPT ![ref] = n.self]
  IN IF IsStopIteration(n.res)
     THEN [heap |-> h, ref |-> ref, res |-> Return(None), out |-> o]
     ELSE IF n.res.k = "raise"
     THEN [heap |-> h, ref |-> ref, res |-> n.res, out |-> o]
     ELSE LET f == call_function(block, n.res.val) IN
          IF f.res.k = "raise"
          THEN [heap |-> h, ref |-> ref, res |-> f.res, out |-> o \o f.out]
          ELSE for_while(ref, h, block, o \o f.out)

(* for TARGET in ITER: BLOCK, as the notebook desugars it *)
for_loop(t, o, heap, block) ==
  LET i == iter_(t, o, heap) IN
  IF i.res.k = "raise"
  THEN [heap |-> i.heap, ref |-> 0, res |-> i.res, out |-> <<>>]
  ELSE for_while(i.ref, i.heap, block, <<>>)

(* One call of the RangeIterable cells, as recorded in log: tgt is what    *)
(* the call was made on (0: the iterable), ref the iterator it used or     *)
(* returned, pre and post that iterator before and after the call.         *)
IterEntry(op, t, r, pre) ==
  [op |-> op, arg |-> None, exc |-> "", tgt |-> t, ref |-> r.ref,
   fresh |-> (r.ref > Len(iters)),
   pre |-> pre, post |-> IF r.ref = 0 THEN NoObj ELSE r.heap[r.ref],
   res |-> r.res, inner |-> r.res, outs |-> r.out]

CanCallIter == obj.cls = "RangeIterable" /\ Len(log) < MaxCalls

(* range_iterable = RangeIterable(stop) *)
NewRangeIterable ==
  /\ ~ctor.called
  /\ \E stop \in StopArgs :
       LET c == RangeIterable__init__(stop) IN
       /\ obj' = c.self
       /\ ctor' = [called |-> TRUE, cls |-> "RangeIterable", arg |-> stop,
                   res |-> c.res]
       /\ UNCHANGED <<log, out, iters>>

(* iter(range_iterable) or iter(an iterator obtained earlier), kept *)
CallIter ==
  /\ CanCallIter
  /\ \E t \in 0..Len(iters) :
       /\ t = 0 => Len(iters) < MaxIters
       /\ LET i == iter_(t, obj, iters)
              r == [heap |-> i.heap, ref |-> i.ref, res |-> i.res,
                    out |-> <<>>]
          IN /\ iters' = r.heap
             /\ log' = Append(log, IterEntry("iter", t, r,
                                  IF t = 0 THEN NoObj ELSE iters[t]))
             /\ UNCHANGED <<obj, out, ctor>>

(* next(an iterator obtained earlier) *)
CallNextRef ==
  /\ CanCallIter
  /\ \E t \in 1..Len(iters) :
       LET n == RangeIterator__next__(iters[t])
           r == [heap |-> [iters EXCEPT ![t] = n.self], ref |-> t,
                 res |-> n.res, out |-> <<>>]
       IN /\ iters' = r.heap
          /\ log' = Append(log, IterEntry("next", t, r, iters[t]))
          /\ UNCHANGED <<obj, out, ctor>>

(* the effect of a loop: its own iterator is dropped when it returns *)
RecordLoop(op, t, r) ==
  /\ iters' = SubSeq(r.heap, 1, Len(iters))
  /\ log' = Append(log, IterEntry(op, t, r, IF t = 0 THEN NoObj ELSE iters[t]))
  /\ out' = out \o r.out
  /\ UNCHANGED <<obj, ctor>>

(* manual_simplified_for_loop(x, print) *)
CallManualLoop ==
  /\ CanCallIter
  /\ \E t \in 0..Len(iters) :
       RecordLoop("manual_simplified_for_loop", t,
                  manual_simplified_for_loop(t, obj, iters, "print"))

(* for item in x: print(item) *)
CallForLoop ==
  /\ CanCallIter
  /\ \E t \in 0..Len(iters) :
       RecordLoop("for", t, for_loop(t, obj, iters, "print"))

NextIter ==
  \/ NewRangeIterable
  \/ CallIter
  \/ CallNextRef
  \/ CallManualLoop
  \/ CallForLoop

SpecIter == Init /\ [][NextIter]_vars

(* ------------------- loops with a raising body ------------------------- *)

(* manual_simplified_for_loop(x, function), function any of LoopBodies *)
CallManualLoopBody ==
  /\ CanCallIter
  /\ \E t \in 0..Len(iters), function \in LoopBodies :
       LET r == manual_simplified_for_loop(t, obj, iters, function) IN
       /\ iters' = SubSeq(r.heap, 1, Len(iters))
       /\ log' = Append(log,
                   [op |-> "manual_simplified_for_loop", arg |-> None,
                    exc |-> "", tgt |-> t, ref |-> r.ref,
                    fresh |-> (r.ref > Len(iters)),
                    pre |-> IF t = 0 THEN NoObj ELSE iters[t],
                    post |-> IF r.ref = 0 THEN NoObj ELSE r.heap[r.ref],
                    res |-> r.res, inner |-> r.res, outs |-> r.out,
                    fn |-> function])
       /\ out' = out \o r.out
       /\ UNCHANGED <<obj, ctor>>

NextBody ==
  \/ NewRangeIterable
  \/ CallIter
  \/ CallNextRef
  \/ CallManualLoopBody

SpecBody == Init /\ [][NextBody]_vars

(* ------------------- properties of RangeIterable ----------------------- *)

IsLoop(e) == e.op \in {"manual_simplified_for_loop", "for"}

(* the iterable was built with a stop it can hand to RangeIterator *)
ValidIterable ==
  ctor.cls = "RangeIterable" /\ isinstance_int(obj.stop) /\ obj.stop.v >= 0

(* print(0), ..., print(n - 1) *)
Items(n) == [i \in 1..n |-> Line("print", PyInt(i - 1))]

(* C12: manual_simplified_for_loop(RangeIterable(n), function) obtains one *)
(* new iterator with iter(), calls function once per item, for 0..n-1 in   *)
(* order, ends the loop on StopIteration and returns normally (the         *)
(* iterator it used is then exhausted, the iterable and the iterators the  *)
(* caller holds are untouched); a for loop over the same iterable makes    *)
(* the same calls.                                                         *)
C12_ManualLoopIsForLoop ==
  ValidIterable =>
    \A k \in Calls :
      (log[k].op = "manual_simplified_for_loop" /\ log[k].tgt = 0)
      => /\ log[k].res = Return(None)
         /\ log[k].outs = Items(obj.stop.v)
         /\ log[k].fresh
         /\ isinstance_StopIteration(log[k].post.next_item)
         /\ \A j \in Calls :
              (log[j].op = "for" /\ log[j].tgt = 0)
              => log[j].outs = log[k].outs /\ log[j].res = log[k].res

C12_Witness ==
  /\ ValidIterable /\ obj.stop.v = 2
  /\ \E k, j \in Calls :
       /\ log[k].op = "manual_simplified_for_loop" /\ log[k].tgt = 0
       /\ log[k].outs = <<Line("print", PyInt(0)), Line("print", PyInt(1))>>
       /\ log[k].res = Return(None)
       /\ log[j].op = "for" /\ log[j].tgt = 0
       /\ j < k

(* call k is manual_simplified_for_loop(x, function) with a body that     *)
(* raises at an item the iterator x still has to deliver                   *)
BodyRaises(k) ==
  /\ log[k].op = "manual_simplified_for_loop"
  /\ log[k].ref # 0
  /\ log[k].fn # "print"
  /\ LET before == IF log[k].tgt = 0
                    THEN RangeIterator__init__(obj.stop).self
                    ELSE log[k].pre
     IN /\ ~isinstance_StopIteration(before.next_item)
        /\ before.next_item.v <= body_at(log[k].fn).v
        /\ body_at(log[k].fn).v < before.stop.v

(* C31: manual_simplified_for_loop catches only the StopIteration of       *)
(* next(iterator). When function(item) raises, StopIteration or another    *)
(* exception, the loop does not end normally: that exception is the        *)
(* outcome of manual_simplified_for_loop, the item it was raised at is the *)
(* last one handed to function, and the iterator is left just after that   *)
(* item (no later item was taken from it).                                 *)
C31_BodyErrorPropagates ==
  \A k \in Calls :
    BodyRaises(k)
    => LET at == body_at(log[k].fn) IN
       /\ log[k].res = Raise(body_exc(log[k].fn))
       /\ log[k].outs # <<>>
       /\ log[k].outs[Len(log[k].outs)] = Line("print", at)
       /\ \A j \in 1..Len(log[k].outs) : log[k].outs[j].v.v <= at.v
       /\ log[k].post.next_item =
            IF at.v + 1 >= log[k].post.stop.v THEN StopIterationMarker
            ELSE PyInt(at.v + 1)

C31_Witness ==
  /\ ValidIterable /\ obj.stop.v = 3
  /\ \E k \in Calls :
       /\ BodyRaises(k) /\ log[k].tgt = 0 /\ log[k].fn = "stop_at_1"
       /\ log[k].res = Raise("StopIteration")
       /\ log[k].outs = <<Line("print", PyInt(0)), Line("print", PyInt(1))>>
       /\ log[k].post.next_item = PyInt(2)

(* number of next() calls made on iterator i before call k *)
NextsBefore(k, i) ==
  Cardinality({j \in 1..(k - 1) : log[j].op = "next" /\ log[j].tgt = i})

(* a loop ran over iterator i itself before call k *)
LoopedBefore(k, i) == \E j \in 1..(k - 1) : IsLoop(log[j]) /\ log[j].tgt = i

(* C20: every iter() on a RangeIterable returns a new RangeIterator that   *)
(* starts at item 0, is not the iterable and is none of the iterators      *)
(* returned before; what next() on an iterator returns depends only on     *)
(* the calls made on that iterator, so each iterator counts 0..stop-1 on   *)
(* its own; no call changes the iterable; and a call changes no iterator   *)
(* other than the one it is made on.                                       *)
C20_IteratorsAreIndependent ==
  /\ [](ValidIterable =>
         /\ obj = RangeIterable__init__(ctor.arg).self
         /\ \A k \in Calls :
              /\ (log[k].op = "iter" /\ log[k].tgt = 0)
                 => /\ log[k].res = Return(PyRef(log[k].ref))
                    /\ log[k].ref # 0
                    /\ log[k].fresh
                    /\ \A j \in 1..(k - 1) : log[j].op = "iter" => log[j].ref # log[k].ref
                    /\ log[k].post.cls = "RangeIterator"
                    /\ log[k].post.stop = obj.stop
                    /\ log[k].post.next_item =
                         IF obj.stop.v > 0 THEN PyInt(0) ELSE StopIterationMarker
              /\ (log[k].op = "next" /\ ~LoopedBefore(k, log[k].tgt))
                 => log[k].res =
                      IF NextsBefore(k, log[k].tgt) < obj.stop.v
                      THEN Return(PyInt(NextsBefore(k, log[k].tgt)))
                      ELSE RaiseStopIteration(None)
              /\ (IsLoop(log[k]) /\ log[k].tgt = 0)
                 => log[k].outs = Items(obj.stop.v))
  /\ [][ValidIterable =>
         /\ obj' = obj
         /\ Len(iters') >= Len(iters)
         /\ \A i \in 1..Len(iters) :
              iters'[i] # iters[i]
              => /\ Len(log') = Len(log) + 1
                 /\ log'[Len(log')].tgt = i
                 /\ log'[Len(log')].op # "iter"]_vars

(* two iterators of one iterable at different positions, one exhausted *)
C20_Witness ==
  /\ ValidIterable /\ obj.stop.v = 2
  /\ Len(iters) = 2
  /\ isinstance_StopIteration(iters[1].next_item)
  /\ iters[2].next_item = PyInt(1)
  /\ \E k \in Calls :
       log[k].op = "next" /\ log[k].tgt = 2 /\ log[k].res = Return(PyInt(0))
       /\ \E j \in 1..(k - 1) : log[j].op = "next" /\ log[j].tgt = 1
                                /\ IsStopIteration(log[j].res)

(* ==================== _GeneratorContextManager ========================= *)

(* _GeneratorContextManager.__init__: self.gen = func(<arguments>) *)
_GeneratorContextManager__init__(func) ==
  [self |-> NewGenerator(func, None), res |-> Return(None)]

(* __enter__ without its try/except *)
__enter___no_except(g) ==
  [self |-> gen_next(g).self, out |-> gen_next(g).out,
   inner |-> gen_next(g).res, res |-> gen_next(g).res]

(* the try/except of __enter__ around r = next(self.gen) *)
enter_outcome(r) ==
  [self |-> r.self, out |-> r.out, inner |-> r.res,
   res |-> IF IsStopIteration(r.res)
           THEN RaiseMsg("RuntimeError", STR_didnt_yield)
           ELSE r.res]

(* _GeneratorContextManager.__enter__ *)
__enter__(g) == enter_outcome(gen_next(g))

(* next(self.gen) or self.gen.throw(type, value, traceback): type is ""    *)
(* for None, value is the identity of the exception instance               *)
exit_resume(g, type, value) ==
  IF type = "" THEN gen_next(g) ELSE gen_send_ex(g, ThrownObj(type, value))

(* the try/except/else of __exit__ around the resumption r *)
exit_outcome(type, value, r) ==
  [self |-> r.self, out |-> r.out, inner |-> r.res,
   res |-> IF type = ""
           THEN IF IsStopIteration(r.res) THEN Return(None)
                ELSE IF r.res.k = "return"
                THEN RaiseMsg("RuntimeError", STR_didnt_stop)
                ELSE r.res
           ELSE IF r.res.k = "return"
           THEN RaiseMsg("RuntimeError", STR_didnt_stop_after_throw)
           ELSE IF IsStopIteration(r.res)
           THEN Return(PyBool(r.res.id # value))
           ELSE r.res]

second_yield_ok(type, x) ==
  IF x.inner.k = "return"
  THEN [x EXCEPT !.res = Return(IF type = "" THEN None ELSE PyBool(FALSE))]
  ELSE x

(* __exit__ that takes a second yield for the end of the generator *)
__exit___second_yield_ok(g, type, value) ==
  second_yield_ok(type, exit_outcome(type, value, exit_resume(g, type, value)))

exc_is_value(type, value, x) ==
  IF type # "" /\ IsStopIteration(x.inner)
  THEN [x EXCEPT !.res = Return(PyBool(x.inner.id = value))]
  ELSE x

(* __exit__ with the identity test the wrong way round *)
__exit___exc_is_value(g, type, value) ==
  exc_is_value(type, value,
               exit_outcome(type, value, exit_resume(g, type, value)))

except_all(type, x) ==
  IF type # "" /\ x.inner.k = "raise" /\ ~IsStopIteration(x.inner)
  THEN [x EXCEPT !.res = Return(PyBool(FALSE))]
  ELSE x

(* __exit__ with a catch-all handler that reports "not handled" *)
__exit___except_all(g, type, value) ==
  except_all(type, exit_outcome(type, value, exit_resume(g, type, value)))

(* __exit__ that leaves the generator alone when the block raised *)
__exit___no_throw(g, type, value) ==
  IF type # ""
  THEN [self |-> g, out |-> <<>>, inner |-> Return(None),
        res |-> Return(PyBool(FALSE))]
  ELSE exit_outcome(type, value, exit_resume(g, type, value))

(* _GeneratorContextManager.__exit__(type, value, traceback) *)
__exit__(g, type, value) ==
  exit_outcome(type, value, exit_resume(g, type, value))

(* truth value of what __exit__ returned *)
bool_(x) == x.t = "bool" /\ x.v = 1

(* leaving the with block: e is what __enter__ gave, x what __exit__ gave; *)
(* the block's exception is re-raised unless __exit__ returned a true      *)
(* value                                                                   *)
with_outcome(raises, e, x) ==
  [self |-> x.self, out |-> e.out \o <<Line("body", e.res.val)>> \o x.out,
   inner |-> x.res,
   res |-> IF x.res.k = "raise" THEN x.res
           ELSE IF raises = "" \/ bool_(x.res.val) THEN Return(None)
           ELSE RaiseObj(raises, 1)]

(* the block of the with statement: it prints <variable>, then ends        *)
(* normally (raises = "") or raises the exception instance 1 of class      *)
(* raises; an __enter__ that raised ends the statement before the block    *)
with_block(raises, e) ==
  IF e.res.k = "raise" THEN e
  ELSE with_outcome(raises, e,
                    __exit__(e.self, raises, IF raises = "" THEN 0 ELSE 1))

(* with cm as <variable>: <body> *)
with_statement(g, raises) == with_block(raises, __enter__(g))

(* exceptions a with block raises *)
WithErrors == {"KeyError", "StopIteration"}

(* cm = some_generator(<arguments>) for a decorated generator function *)
NewContextManager ==
  /\ ~ctor.called
  /\ \E func \in ContextManagerFunctions :
       LET c == _GeneratorContextManager__init__(func) IN
       /\ obj' = c.self
       /\ ctor' = [called |-> TRUE, cls |-> "_GeneratorContextManager",
                   arg |-> None, res |-> c.res]
       /\ UNCHANGED <<log, out, aux>>

IsContextManager == ctor.cls = "_GeneratorContextManager"

(* cm.__enter__() *)
CallEnter ==
  /\ CanCall /\ IsContextManager
  /\ LET r == __enter__(obj) IN Record("__enter__", None, "", r, r.inner)

(* cm.__exit__(None, None, None) or cm.__exit__(type, value, traceback) *)
CallExit ==
  /\ CanCall /\ IsContextManager
  /\ \E type \in {""} \cup WithErrors :
       LET r == __exit__(obj, type, IF type = "" THEN 0 ELSE 1) IN
       Record("__exit__", None, type, r, r.inner)

(* with cm as <variable>: <body> *)
CallWith ==
  /\ CanCall /\ IsContextManager
  /\ \E raises \in {""} \cup WithErrors :
       LET r == with_statement(obj, raises) IN
       Record("with", None, raises, r, r.inner)

NextWith ==
  \/ NewContextManager
  \/ CallEnter
  \/ CallExit
  \/ CallWith

SpecWith == Init /\ [][NextWith]_vars

(* what a loop over the iterator o still has to print *)
Remaining(o) ==
  IF isinstance_StopIteration(o.next_item) THEN <<>>
  ELSE [j \in 1..(o.stop.v - o.next_item.v) |->
          Line("print", PyInt(o.next_item.v + j - 1))]

(* number of next() calls on iterator i before call k that returned an item *)
ItemsBefore(k, i) ==
  Cardinality({j \in 1..(k - 1) : /\ log[j].op = "next" /\ log[j].tgt = i
                                  /\ log[j].res.k = "return"})

(* C21: iter(it) on a RangeIterator returns it itself (no new object) and  *)
(* leaves it as it was, whether it is new, partly consumed or exhausted;   *)
(* a for loop or manual_simplified_for_loop over an iterator uses that     *)
(* iterator itself and prints only the items not yet returned by next(),   *)
(* in order, leaving it exhausted.                                         *)
C21_IterOfIteratorIsSelf ==
  ValidIterable =>
    \A k \in Calls :
      /\ (log[k].op = "iter" /\ log[k].tgt > 0)
         => /\ log[k].res = Return(PyRef(log[k].tgt))
            /\ log[k].ref = log[k].tgt
            /\ ~log[k].fresh
            /\ log[k].post = log[k].pre
      /\ (IsLoop(log[k]) /\ log[k].tgt > 0)
         => /\ log[k].ref = log[k].tgt
            /\ ~log[k].fresh
            /\ log[k].res = Return(None)
            /\ log[k].outs = Remaining(log[k].pre)
            /\ isinstance_StopIteration(log[k].post.next_item)
            /\ ~LoopedBefore(k, log[k].tgt)
               => /\ Len(log[k].outs) = obj.stop.v - ItemsBefore(k, log[k].tgt)
                  /\ \A j \in 1..Len(log[k].outs) :
                       log[k].outs[j] =
                         Line("print", PyInt(ItemsBefore(k, log[k].tgt) + j - 1))

(* next() once, iter() of the partly consumed iterator, then a loop over it *)
C21_Witness ==
  /\ ValidIterable /\ obj.stop.v = 3
  /\ \E a, b, c \in Calls :
       /\ a < b /\ b < c
       /\ log[a].op = "next" /\ log[a].tgt = 1 /\ log[a].res = Return(PyInt(0))
       /\ log[b].op = "iter" /\ log[b].tgt = 1
       /\ log[b].pre.next_item = PyInt(1) /\ log[b].post.next_item = PyInt(1)
       /\ IsLoop(log[c]) /\ log[c].tgt = 1
       /\ log[c].outs = <<Line("print", PyInt(1)), Line("print", PyInt(2))>>

(* -------------- properties of _GeneratorContextManager ----------------- *)

DidntYield == RaiseMsg("RuntimeError", STR_didnt_yield)

(* C14: __enter__ resumes the generator once and returns the value it      *)
(* yields (for a new generator: the setup has run, the cleanup has not,    *)
(* and the generator is suspended at its yield); when that resumption      *)
(* ends the generator without a yield, __enter__ raises                    *)
(* RuntimeError("generator didn't yield"), never StopIteration.            *)
C14_EnterYieldsOrUsageError ==
  IsContextManager =>
    \A k \in Calls :
      log[k].op = "__enter__"
      => /\ log[k].inner.k = "return"
            => log[k].res = log[k].inner /\ log[k].res.val = STR_value
         /\ IsStopIteration(log[k].inner) => log[k].res = DidntYield
         /\ ~IsStopIteration(log[k].res)
         /\ log[k].pre.state = "created"
            => IF log[k].pre.fn = "no_yield_generator"
               THEN /\ log[k].res = DidntYield
                    /\ log[k].post.state = "closed"
                    /\ log[k].outs = <<Line("setup", None)>>
               ELSE /\ log[k].res = Return(STR_value)
                    /\ log[k].post.state = "suspended"
                    /\ log[k].post.pc = "yield value"
                    /\ log[k].outs =
                         IF log[k].pre.fn \in {"some_generator",
                                               "unguarded_generator"}
                         THEN <<Line("setup", None)>> ELSE <<>>

C14_Witness ==
  /\ IsContextManager
  /\ Len(log) >= 1
  /\ log[1].op = "__enter__"
  /\ log[1].pre.fn = "no_yield_generator"
  /\ log[1].inner = RaiseStopIteration(None)
  /\ log[1].res = DidntYield

(* C15: when the generator yields again on the resumption made by          *)
(* __exit__, __exit__ raises RuntimeError: "generator didn't stop" after   *)
(* next() (no error in the block), "generator didn't stop after throw()"   *)
(* after throw() (the block raised).                                       *)
C15_SecondYieldIsUsageError ==
  IsContextManager =>
    \A k \in Calls :
      log[k].op = "__exit__"
      => /\ log[k].inner.k = "return"
            => log[k].res =
                 RaiseMsg("RuntimeError",
                          IF log[k].exc = "" THEN STR_didnt_stop
                          ELSE STR_didnt_stop_after_throw)
         /\ (log[k].pre.fn = "never_stopping_generator"
             /\ log[k].pre.state = "suspended")
            => /\ log[k].inner = Return(STR_value)
               /\ log[k].res.k = "raise" /\ log[k].res.exc = "RuntimeError"

C15_Witness ==
  /\ IsContextManager
  /\ \E k, j \in Calls :
       /\ log[k].op = "__exit__" /\ log[k].exc = ""
       /\ log[k].inner = Return(STR_value)
       /\ log[k].res = RaiseMsg("RuntimeError", STR_didnt_stop)
       /\ log[j].op = "__exit__" /\ log[j].exc = "KeyError"
       /\ log[j].inner = Return(STR_value)
       /\ log[j].res = RaiseMsg("RuntimeError", STR_didnt_stop_after_throw)

(* C16: when __exit__ is called with an error and the generator catches    *)
(* it and finishes, __exit__ returns True, and a with statement whose      *)
(* block raised ends without an exception.                                 *)
C16_SuppressedErrorIsHandled ==
  IsContextManager =>
    \A k \in Calls :
      /\ (log[k].op = "__exit__" /\ log[k].exc # ""
          /\ log[k].inner = RaiseStopIteration(None))
         => log[k].res = Return(PyBool(TRUE))
      /\ (log[k].op = "__exit__" /\ log[k].exc # ""
          /\ log[k].pre.fn = "suppressing_generator"
          /\ log[k].pre.state = "suspended")
         => /\ log[k].res = Return(PyBool(TRUE))
            /\ log[k].post.state = "closed"
      /\ (log[k].op = "with" /\ log[k].exc # ""
          /\ log[k].pre.fn = "suppressing_generator"
          /\ log[k].pre.state = "created")
         => /\ log[k].res = Return(None)
            /\ log[k].inner = Return(PyBool(TRUE))

C16_Witness ==
  /\ IsContextManager
  /\ \E k \in Calls :
       /\ log[k].op = "__exit__" /\ log[k].exc = "KeyError"
       /\ log[k].pre.fn = "suppressing_generator"
       /\ log[k].pre.state = "suspended"
       /\ log[k].res = Return(PyBool(TRUE))

(* the generator, suspended at its yield, let the thrown instance out *)
ReraisedSame(e) ==
  /\ e.op = "__exit__" /\ e.exc # "" /\ e.pre.state = "suspended"
  /\ e.inner = RaiseObj(e.exc, 1)

(* C17: when __exit__ is called with an error and the generator re-raises  *)
(* that same error, __exit__ returns a false value instead of raising.     *)
C17_AsStated ==
  IsContextManager =>
    \A k \in Calls :
      ReraisedSame(log[k])
      => log[k].res.k = "return" /\ ~bool_(log[k].res.val)

(* the generator, suspended at its yield, answered the thrown error by     *)
(* raising a new exception                                                 *)
RaisedDifferent(e) ==
  /\ e.op = "__exit__" /\ e.exc # "" /\ e.pre.state = "suspended"
  /\ e.pre.fn \in {"translating_generator", "stopping_generator"}

(* C18 as stated: whatever different error F the generator raises while    *)
(* handling E, F propagates out of __exit__.                               *)
C18_AsStated ==
  IsContextManager =>
    \A k \in Calls :
      RaisedDifferent(log[k])
      => /\ log[k].res.k = "raise"
         /\ log[k].res = log[k].inner
         /\ log[k].res.id # 1

(* C18: a different error F that is not a StopIteration propagates out of  *)
(* __exit__ (and so out of the with statement) as an exception; a new      *)
(* StopIteration raised by the generator counts as the generator           *)
(* finishing, and __exit__ returns True.                                   *)
C18_DifferentErrorPropagates ==
  IsContextManager =>
    \A k \in Calls :
      /\ (RaisedDifferent(log[k]) /\ log[k].inner.exc # "StopIteration")
         => /\ log[k].res = Raise("ValueError")
            /\ log[k].res = log[k].inner
      /\ (RaisedDifferent(log[k]) /\ log[k].inner.exc = "StopIteration")
         => /\ log[k].pre.fn = "stopping_generator"
            /\ log[k].res = Return(PyBool(TRUE))
      /\ (log[k].op = "__exit__" /\ log[k].exc # ""
          /\ log[k].inner.k = "raise" /\ log[k].inner.id # 1
          /\ log[k].inner.exc # "StopIteration")
         => log[k].res = log[k].inner
      /\ (log[k].op = "with" /\ log[k].exc # ""
          /\ log[k].pre.fn = "translating_generator"
          /\ log[k].pre.state = "created")
         => log[k].res = Raise("ValueError")

C18_Witness ==
  /\ IsContextManager
  /\ \E k \in Calls :
       /\ RaisedDifferent(log[k])
       /\ log[k].exc = "KeyError"
       /\ log[k].pre.fn = "translating_generator"
       /\ log[k].res = Raise("ValueError")

(* C19: a with statement over a new context manager of some_generator      *)
(* (setup; try: yield value; finally: cleanup) prints setup, the body      *)
(* (bound to the yielded value), cleanup -- cleanup once, after the body   *)
(* -- and leaves the generator finished; it ends normally when the body    *)
(* did, and with the body's own exception instance when the body raised.   *)
C19_CleanupAlwaysRuns ==
  IsContextManager =>
    \A k \in Calls :
      (log[k].op = "with" /\ log[k].pre.fn = "some_generator"
       /\ log[k].pre.state = "created")
      => /\ log[k].outs = <<Line("setup", None), Line("body", STR_value),
                            Line("cleanup", None)>>
         /\ log[k].post.state = "closed"
         /\ log[k].res = IF log[k].exc = "" THEN Return(None)
                         ELSE RaiseObj(log[k].exc, 1)

C19_Witness ==
  /\ IsContextManager
  /\ \E k \in Calls :
       /\ log[k].op = "with" /\ log[k].pre.fn = "some_generator"
       /\ log[k].pre.state = "created"
       /\ log[k].exc = "KeyError"
       /\ log[k].res = RaiseObj("KeyError", 1)
       /\ log[k].outs[3] = Line("cleanup", None)

(* call k hands the error of the with block to a context manager of       *)
(* unguarded_generator that is suspended at its yield                     *)
UnguardedExit(k) ==
  /\ log[k].op = "__exit__" /\ log[k].exc # ""
  /\ log[k].pre.fn = "unguarded_generator"
  /\ log[k].pre.state = "suspended"

(* call k is a with statement whose block raises, over a new context      *)
(* manager of unguarded_generator                                         *)
UnguardedWith(k) ==
  /\ log[k].op = "with" /\ log[k].exc # ""
  /\ log[k].pre.fn = "unguarded_generator"
  /\ log[k].pre.state = "created"

CleanupPrinted(k) ==
  \E j \in 1..Len(log[k].outs) : log[k].outs[j] = Line("cleanup", None)

(* C32 as stated: for `setup; yield value; cleanup` without try/finally,   *)
(* whatever error E the with block raises, __exit__ throws E in at the     *)
(* yield, cleanup is not executed, and E leaves __exit__ as an exception.  *)
C32_AsStated ==
  IsContextManager =>
    \A k \in Calls :
      UnguardedExit(k)
      => /\ ~CleanupPrinted(k)
         /\ log[k].post.state = "closed"
         /\ log[k].res = RaiseObj(log[k].exc, 1)

(* C32: for `setup; yield value; cleanup` without try/finally, when the    *)
(* with block raises E, __exit__ throws E in at the yield, the generator   *)
(* ends there without executing cleanup, and E reaches the caller of the   *)
(* with statement: E leaves __exit__ as an exception, except that for a    *)
(* StopIteration __exit__ returns False and the with statement raises E    *)
(* again.                                                                  *)
C32_UnguardedCleanupIsSkipped ==
  IsContextManager =>
    \A k \in Calls :
      /\ UnguardedExit(k)
         => /\ ~CleanupPrinted(k)
            /\ log[k].post.state = "closed"
            /\ log[k].inner = RaiseObj(log[k].exc, 1)
            /\ log[k].res = IF log[k].exc = "StopIteration"
                            THEN Return(PyBool(FALSE))
                            ELSE RaiseObj(log[k].exc, 1)
      /\ UnguardedWith(k)
         => /\ log[k].outs = <<Line("setup", None), Line("body", STR_value)>>
            /\ log[k].post.state = "closed"
            /\ log[k].res = RaiseObj(log[k].exc, 1)

C32_Witness ==
  /\ IsContextManager
  /\ \E k \in Calls :
       /\ UnguardedExit(k) /\ log[k].exc = "KeyError"
       /\ log[k].res = RaiseObj("KeyError", 1)
       /\ log[k].post.state = "closed"
       /\ out = <<Line("setup", None)>>

(* ============ two consumers of one RangeIterator ======================= *)

Consumers == {1, 2}

(* One next(range_iterator) made by consumer c, as recorded in log. *)
ConsumerEntry(c, r) ==
  [op |-> "next", who |-> c, pre |-> obj, post |-> r.self, res |-> r.res]

(* a function that was passed the iterator reads its next element; calls   *)
(* run to completion one after the other (no threads)                      *)
ConsumerNext ==
  /\ CanCall
  /\ \E c \in Consumers :
       LET r == RangeIterator__next__(obj) IN
       /\ obj' = r.self
       /\ log' = Append(log, ConsumerEntry(c, r))
       /\ UNCHANGED <<out, ctor, aux>>

NextShared ==
  \/ NewRangeIterator
  \/ ConsumerNext

SpecShared == Init /\ [][NextShared]_vars

(* ---------------- properties of the shared iterator -------------------- *)

ReturnedItem(e) == e.res.k = "return"

(* the calls that delivered an element, in call order *)
Delivered == SelectSeq(log, ReturnedItem)

(* C22: whichever consumer makes each next() call on one shared            *)
(* RangeIterator(stop), the calls that return an element return 0, 1, ...  *)
(* in call order, so no element is returned twice (to the same or to the   *)
(* other consumer) and none is skipped; a call raises StopIteration only   *)
(* when all stop elements have been handed out, and after stop calls all   *)
(* of them have been.                                                      *)
C22_SharedIteratorDeliversOnce ==
  (ctor.cls = "RangeIterator" /\ obj.cls # "none") =>
    /\ Len(Delivered) <= obj.stop.v
    /\ \A i \in 1..Len(Delivered) : Delivered[i].res = Return(PyInt(i - 1))
    /\ \A j, k \in Calls :
         (j # k /\ ReturnedItem(log[j]) /\ ReturnedItem(log[k]))
         => log[j].res # log[k].res
    /\ \A k \in Calls :
         \/ ReturnedItem(log[k])
         \/ /\ log[k].res = RaiseStopIteration(None)
            /\ Len(SelectSeq(SubSeq(log, 1, k), ReturnedItem)) = obj.stop.v
    /\ Len(log) >= obj.stop.v => Len(Delivered) = obj.stop.v

(* both consumers received elements, and the one that came last found the  *)
(* iterator used up                                                        *)
C22_Witness ==
  /\ ctor.cls = "RangeIterator" /\ obj.cls # "none" /\ obj.stop.v = 3
  /\ Len(log) = 4
  /\ log[1].who = 1 /\ log[1].res = Return(PyInt(0))
  /\ log[2].who = 2 /\ log[2].res = Return(PyInt(1))
  /\ log[3].who = 1 /\ log[3].res = Return(PyInt(2))
  /\ log[4].who = 2 /\ IsStopIteration(log[4].res)

(* =============== for loop over a range generator ======================= *)

(* the loop body of the cell: print('yielded', item) *)
print_yielded(item) == <<Line("yielded", item)>>

(* The `while running:` loop the for statement stands for, over the        *)
(* generator g (iter(g) is g).  steps has one record per next() the loop   *)
(* made: what the generator printed during that resumption, how the        *)
(* resumption ended, and what the loop body printed after it.              *)
RECURSIVE for_generator_while(_, _, _)
for_generator_while(g, steps, o) ==
  LET r == gen_next(g) IN
  IF r.res.k = "raise"
  THEN [self |-> r.self, out |-> o \o r.out,
        steps |-> Append(steps, [outs |-> r.out, res |-> r.res, body |-> <<>>]),
        res |-> IF IsStopIteration(r.res) THEN Return(None) ELSE r.res]
  ELSE for_generator_while(
         r.self,
         Append(steps, [outs |-> r.out, res |-> r.res,
                        body |-> print_yielded(r.res.val)]),
         o \o r.out \o print_yielded(r.res.val))

(* for item in range_generator: print('yielded', item) *)
for_generator(g) == for_generator_while(g, <<>>, <<>>)

ForEntry(r) ==
  [op |-> "for", arg |-> None, exc |-> "", pre |-> obj, post |-> r.self,
   res |-> r.res, inner |-> r.res, outs |-> r.out, steps |-> r.steps]

(* the for cell, run on the generator as it is *)
CallForGenerator ==
  /\ CanCall
  /\ obj.cls = "generator"
  /\ LET r == for_generator(obj) IN
     /\ obj' = r.self
     /\ log' = Append(log, ForEntry(r))
     /\ out' = out \o r.out
     /\ UNCHANGED <<ctor, aux>>

NextFor ==
  \/ NewRangeGenerator
  \/ CallNext
  \/ CallForGenerator

SpecFor == Init /\ [][NextFor]_vars

(* ------------------- properties of the for loop ------------------------ *)

L4 == Line("Running line 4", None)
L5(i) == Line("Running line 5 with index", PyInt(i))
L6(i) == Line("Running line 6 with index", PyInt(i))
L7(i) == Line("Running line 7 with index", PyInt(i))

(* what the whole loop over range_generator_function(n) prints *)
RECURSIVE Alternation(_, _)
Alternation(i, n) ==
  IF i >= n THEN <<L7(n)>>
  ELSE <<L5(i), Line("yielded", PyInt(i)), L6(i)>> \o Alternation(i + 1, n)

(* C27: a for loop over a new range_generator_function(n) prints line 4    *)
(* once and first, then for i = 0..n-1 line 5 with i, the loop body with   *)
(* item i, line 6 with i, and last line 7 with n, once.  The loop resumes  *)
(* the generator n + 1 times; resumption i + 1 prints line 6 of item i - 1 *)
(* (line 4 when first) and then line 5 with i and yields i, after which    *)
(* the body runs with i; the last resumption prints line 7 and ends with   *)
(* StopIteration, which ends the loop without a body.  Generator lines     *)
(* appear only inside resumptions, body lines only between them.           *)
C27_ProducerConsumerAlternate ==
  (ctor.cls = "range_generator_function" /\ obj.cls # "none") =>
    \A k \in Calls :
      (log[k].op = "for" /\ log[k].pre.state = "created")
      => LET n == ctor.arg.v
             st == log[k].steps
         IN /\ log[k].outs = <<L4>> \o Alternation(0, n)
            /\ log[k].res = Return(None)
            /\ Len(st) = n + 1
            /\ \A i \in 1..n :
                 /\ st[i].outs = (IF i = 1 THEN <<L4>> ELSE <<L6(i - 2)>>)
                                 \o <<L5(i - 1)>>
                 /\ st[i].res = Return(PyInt(i - 1))
                 /\ st[i].body = <<Line("yielded", PyInt(i - 1))>>
            /\ st[n + 1].outs = (IF n = 0 THEN <<L4>> ELSE <<L6(n - 1)>>)
                                \o <<L7(n)>>
            /\ st[n + 1].res = RaiseStopIteration(None)
            /\ st[n + 1].body = <<>>

C27_Witness ==
  /\ ctor.cls = "range_generator_function" /\ obj.cls # "none"
  /\ ctor.arg = PyInt(2)
  /\ Len(log) = 1 /\ log[1].op = "for"
  /\ log[1].outs = <<L4, L5(0), Line("yielded", PyInt(0)), L6(0),
                     L5(1), Line("yielded", PyInt(1)), L6(1), L7(2)>>
  /\ out = WrapperLines \o log[1].outs

(* ============================= the adders ============================== *)

MaxAdderCalls == 4

RECURSIVE Adder_send(_, _)

(* sum(integers) over the generator expression, given the outcome of the   *)
(* send it made                                                            *)
Adder_reentrant(inner) ==
  [self |-> inner.self, out |-> inner.out, res |-> reentrant_sum(inner.res)]

(* sum(integers) inside Adder.send: the instance after the iteration and   *)
(* the sum                                                                 *)
Adder_sum(self, x) ==
  IF ~first_is_iterable(as_list(x))
  THEN [self |-> self, out |-> <<>>, res |-> sum(as_list(x))]
  ELSE IF as_list(x)[1].t = "reentrant"
  THEN Adder_reentrant(Adder_send(self, PyInt(as_list(x)[1].v)))
  ELSE IF as_list(x)[1].t = "str"
  THEN [self |-> self, out |-> <<>>, res |-> Raise("TypeError")]
  ELSE [self |-> self, out |-> <<>>, res |-> sum(elements(as_list(x)[1]))]

(* self.total += sum(integers), the prints and the return: self.total is   *)
(* read before sum() runs, s is the outcome of sum()                       *)
Adder_add(self, x, s) ==
  IF s.res.k = "raise"
  THEN [self |-> s.self,
        out |-> <<Line("At start of send, current total is", PyInt(self.total)),
                  Line("send received", x)>> \o s.out,
        res |-> s.res]
  ELSE [self |-> [s.self EXCEPT !.total = self.total + s.res.val.v],
        out |-> <<Line("At start of send, current total is", PyInt(self.total)),
                  Line("send received", x)>> \o s.out
                \o <<Line("At end of send, returning current total",
                          PyInt(self.total + s.res.val.v))>>,
        res |-> Return(PyInt(self.total + s.res.val.v))]

(* Adder.send *)
Adder_send(self, integers) ==
  IF self.stopped
  THEN [self |-> self, out |-> <<>>, res |-> RaiseStopIteration(None)]
  ELSE Adder_add(self, integers, Adder_sum(self, integers))

(* Adder.throw without the `if self.stopped` test *)
Adder_throw_again(self, exc_type) ==
  [self |-> [self EXCEPT !.stopped = TRUE],
   out |-> <<Line("At start of throw, current total is", PyInt(self.total)),
             Line("throw received exception and is returning with final total",
                  PyInt(self.total))>>,
   res |-> RaiseStopIteration(PyInt(self.total))]

(* an Adder.throw that forgets `self.stopped = True` *)
Adder_throw_not_stopped(self, exc_type) ==
  IF self.stopped
  THEN [self |-> self, out |-> <<>>, res |-> RaiseStopIteration(None)]
  ELSE [self |-> self,
        out |-> <<Line("At start of throw, current total is", PyInt(self.total)),
                  Line("throw received exception and is returning with final total",
                       PyInt(self.total))>>,
        res |-> RaiseStopIteration(PyInt(self.total))]

(* Adder.throw *)
Adder_throw(self, exc_type) ==
  IF self.stopped
  THEN [self |-> self, out |-> <<>>, res |-> RaiseStopIteration(None)]
  ELSE [self |-> [self EXCEPT !.stopped = TRUE],
        out |-> <<Line("At start of throw, current total is", PyInt(self.total)),
                  Line("throw received exception and is returning with final total",
                       PyInt(self.total))>>,
        res |-> RaiseStopIteration(PyInt(self.total))]

(* Adder.__init__ *)
Adder__init__ ==
  [self |-> [NoObj EXCEPT !.cls = "Adder", !.total = 0, !.stopped = FALSE],
   res |-> Return(None)]

(* collections.Generator.__next__: return self.send(None) *)
Generator__next__(self) == Adder_send(self, None)

(* collections.Generator.close, given the outcome t of                     *)
(* self.throw(GeneratorExit)                                               *)
Generator_close_outcome(t) ==
  [self |-> t.self, out |-> t.out,
   res |-> IF t.res.k = "return" THEN Raise("RuntimeError")
           ELSE IF t.res.exc \in {"StopIteration", "GeneratorExit"}
           THEN Return(None)
           ELSE t.res]

(* collections.Generator.close *)
Generator_close(self) == Generator_close_outcome(Adder_throw(self, "GeneratorExit"))

(* what the cells send and throw *)
AdderArgs ==
  {PyInt(10), PyList(1), PyTuple(3), PyTupleOfRange(3), PyRange(3), None,
   Reentrant(1), PyTupleWithRest(3), PyListWithRest(2)}
AdderThrown == {"StopAdder", "KeyError"}

(* One call made on both adders, as recorded in log: the generator of      *)
(* adder_function is obj (pre, post, res, outs), the Adder instance is     *)
(* iters[1] (pre2, post2, res2, outs2); for a send of the generator        *)
(* expression, inner and inner2 are the outcomes of the send it makes and  *)
(* inner_total, inner_total2 the totals right after that send.             *)
AdderEntry(op, arg, e, r, r2, i, i2) ==
  [op |-> op, arg |-> arg, exc |-> e,
   pre |-> obj, post |-> r.self, res |-> r.res, outs |-> r.out,
   pre2 |-> iters[1], post2 |-> r2.self, res2 |-> r2.res, outs2 |-> r2.out,
   inner |-> i.res, inner_total |-> i.self.total,
   inner2 |-> i2.res, inner_total2 |-> i2.self.total]

NoInner(o) == [self |-> o, out |-> <<>>, res |-> Return(None)]

RecordAdders(op, arg, e, r, r2, i, i2) ==
  /\ obj' = r.self
  /\ iters' = <<r2.self>>
  /\ log' = Append(log, AdderEntry(op, arg, e, r, r2, i, i2))
  /\ out' = out \o r.out
  /\ UNCHANGED ctor

CanCallAdders == ctor.cls = "adder" /\ Len(log) < MaxAdderCalls

(* adder = adder_function(); next(adder)   and   adder = Adder() *)
NewAdders ==
  /\ ~ctor.called
  /\ LET r == gen_next(NewGenerator("adder_function", None)) IN
     /\ obj' = r.self
     /\ out' = out \o r.out
     /\ iters' = <<Adder__init__.self>>
     /\ ctor' = [called |-> TRUE, cls |-> "adder", arg |-> None, res |-> r.res]
     /\ UNCHANGED log

(* adder.send(x) *)
AdderSend ==
  /\ CanCallAdders
  /\ \E x \in AdderArgs :
       RecordAdders("send", x, "", gen_send(obj, x), Adder_send(iters[1], x),
         IF x.t = "reentrant"
         THEN gen_send_ex([obj EXCEPT !.state = "running"], Sent(PyInt(x.v)))
         ELSE NoInner(obj),
         IF x.t = "reentrant" THEN Adder_send(iters[1], PyInt(x.v))
         ELSE NoInner(iters[1]))

(* adder.throw(e) *)
AdderThrow ==
  /\ CanCallAdders
  /\ \E e \in AdderThrown :
       RecordAdders("throw", None, e, gen_throw(obj, e), Adder_throw(iters[1], e),
                    NoInner(obj), NoInner(iters[1]))

(* adder.close() *)
AdderClose ==
  /\ CanCallAdders
  /\ RecordAdders("close", None, "", gen_close(obj), Generator_close(iters[1]),
                  NoInner(obj), NoInner(iters[1]))

(* next(adder) *)
AdderNext ==
  /\ CanCallAdders
  /\ RecordAdders("next", None, "", gen_next(obj), Generator__next__(iters[1]),
                  NoInner(obj), NoInner(iters[1]))

NextAdder ==
  \/ NewAdders
  \/ AdderSend
  \/ AdderThrow
  \/ AdderClose
  \/ AdderNext

SpecAdder == Init /\ [][NextAdder]_vars

(* --------------------- properties of the adders ------------------------ *)

IsAdders == ctor.cls = "adder"

(* an int, a flat list or tuple of ints, a tuple holding one iterable of   *)
(* ints, or such an iterable itself                                        *)
WellFormed(x) == x.t \in {"int", "list", "tuple", "tuple_of_range", "range"}

RECURSIVE SeqSum(_)
SeqSum(q) == IF q = <<>> THEN 0 ELSE Head(q) + SeqSum(Tail(q))

(* the sum of the integers in a well-formed argument *)
ArgSum(x) ==
  CASE x.t = "int" -> x.v
    [] x.t \in {"list", "tuple"} -> SeqSum(ListItems[x.v])
    [] x.t \in {"tuple_of_range", "range"} -> (x.v * (x.v - 1)) \div 2

(* the first k calls were sends of well-formed arguments *)
GoodSends(k) ==
  \A j \in 1..k : log[j].op = "send" /\ WellFormed(log[j].arg)

(* the sum of everything sent by the first k calls *)
RECURSIVE SentTotal(_)
SentTotal(k) == IF k = 0 THEN 0 ELSE SentTotal(k - 1) + ArgSum(log[k].arg)

(* C23: after any sequence of sends of well-formed arguments, into the     *)
(* primed adder_function generator and into an Adder instance alike, each  *)
(* send returns the sum of all integers sent so far, and a throw(StopAdder) *)
(* that follows raises StopIteration carrying that total.                  *)
C23_RunningTotal ==
  IsAdders =>
    \A k \in Calls :
      /\ GoodSends(k)
         => /\ log[k].res = Return(PyInt(SentTotal(k)))
            /\ log[k].res2 = Return(PyInt(SentTotal(k)))
            /\ log[k].post.total = SentTotal(k)
            /\ log[k].post2.total = SentTotal(k)
      /\ (GoodSends(k - 1) /\ log[k].op = "throw" /\ log[k].exc = "StopAdder")
         => /\ log[k].res = RaiseStopIteration(PyInt(SentTotal(k - 1)))
            /\ log[k].res2 = RaiseStopIteration(PyInt(SentTotal(k - 1)))

C23_Witness ==
  /\ IsAdders /\ Len(log) = 4
  /\ log[1].arg = PyInt(10) /\ log[1].res = Return(PyInt(10))
  /\ log[2].arg = PyTuple(3) /\ log[2].res2 = Return(PyInt(16))
  /\ log[3].arg = PyTupleOfRange(3) /\ log[3].res = Return(PyInt(19))
  /\ log[4].op = "throw" /\ log[4].exc = "StopAdder"
  /\ log[4].res = RaiseStopIteration(PyInt(19))
  /\ log[4].res2 = RaiseStopIteration(PyInt(19))

(* C24: the throw() that stops an Adder raises StopIteration carrying the  *)
(* total; from then on the instance stays stopped with that total, and     *)
(* every send(), next() or throw() raises StopIteration without a value.   *)
C24_AdderStoppedForGood ==
  IsAdders =>
    \A k \in Calls :
      /\ (log[k].op = "throw" /\ ~log[k].pre2.stopped)
         => /\ log[k].res2 = RaiseStopIteration(PyInt(log[k].pre2.total))
            /\ log[k].post2 = [log[k].pre2 EXCEPT !.stopped = TRUE]
      /\ log[k].op = "throw" => log[k].post2.stopped
      /\ log[k].pre2.stopped
         => /\ log[k].post2 = log[k].pre2
            /\ log[k].op \in {"send", "next", "throw"}
               => log[k].res2 = RaiseStopIteration(None)
      /\ \A j \in 1..(k - 1) :
           log[j].op = "throw"
           => /\ log[k].post2.stopped
              /\ log[k].post2.total = log[j].post2.total

C24_Witness ==
  /\ IsAdders /\ Len(log) = 4
  /\ log[1].op = "send" /\ log[1].res2 = Return(PyInt(10))
  /\ log[2].op = "throw" /\ log[2].res2 = RaiseStopIteration(PyInt(10))
  /\ log[3].op = "send" /\ log[3].arg = PyInt(10)
  /\ log[3].res2 = RaiseStopIteration(None)
  /\ log[4].op = "throw" /\ log[4].res2 = RaiseStopIteration(None)
  /\ iters[1].total = 10 /\ iters[1].stopped

(* the call failed inside the body: it raised something other than         *)
(* StopIteration                                                           *)
FailedInBody(r) == r.k = "raise" /\ r.exc # "StopIteration"

(* C25: when a send() or next() fails inside the body, the error reaches   *)
(* the caller and the adder is terminated -- every later send() raises     *)
(* StopIteration -- for the adder_function generator and for the Adder.    *)
C25_AsStated ==
  IsAdders =>
    \A j \in Calls : \A k \in Calls :
      (j < k /\ log[j].op \in {"send", "next"} /\ log[k].op = "send")
      => /\ FailedInBody(log[j].res) => IsStopIteration(log[k].res)
         /\ FailedInBody(log[j].res2) => IsStopIteration(log[k].res2)

(* C26: a send made on an adder from inside its own running send (by the   *)
(* iterable being summed) is rejected with an error and leaves the total   *)
(* as it was, for the adder_function generator and for the Adder.          *)
C26_AsStated ==
  IsAdders =>
    \A k \in Calls :
      (log[k].op = "send" /\ log[k].arg.t = "reentrant")
      => /\ log[k].pre.state = "suspended"
            => /\ log[k].inner.k = "raise"
               /\ log[k].inner_total = log[k].pre.total
         /\ ~log[k].pre2.stopped
            => /\ log[k].inner2.k = "raise"
               /\ log[k].inner_total2 = log[k].pre2.total

(* the calls 1..k are sends of well-formed arguments, throws and closes *)
Comparable(k) ==
  \A j \in 1..k :
    /\ log[j].op \in {"send", "throw", "close"}
    /\ log[j].op = "send" => WellFormed(log[j].arg)

(* C29: over every sequence of sends of well-formed arguments, throws and  *)
(* closes, also after the adder has stopped, the Adder instance and the    *)
(* primed adder_function generator end each call the same way: the same    *)
(* value returned, or an exception of the same class with the same value.  *)
C29_AsStated ==
  IsAdders =>
    \A k \in Calls :
      Comparable(k)
      => /\ log[k].res.k = log[k].res2.k
         /\ log[k].res.exc = log[k].res2.exc
         /\ log[k].res.val = log[k].res2.val


(* C33: close() ends both adders without an error. On the adder_function   *)
(* generator and on the Adder instance, every close() returns None (no     *)
(* RuntimeError, no other exception) and leaves the adder finished; a      *)
(* close() after that returns None again and changes and prints nothing;   *)
(* every send() or next() after it raises StopIteration.                   *)
C33_CloseEndsTheAdder ==
  IsAdders =>
    \A k \in Calls :
      log[k].op = "close"
      => /\ log[k].res = Return(None) /\ log[k].res2 = Return(None)
         /\ log[k].post.state = "closed" /\ log[k].post2.stopped
         /\ \A j \in Calls :
              j > k
              => /\ log[j].op = "close"
                    => /\ log[j].res = Return(None)
                       /\ log[j].res2 = Return(None)
                       /\ log[j].post = log[j].pre
                       /\ log[j].post2 = log[j].pre2
                       /\ log[j].outs = <<>> /\ log[j].outs2 = <<>>
                 /\ log[j].op \in {"send", "next"}
                    => /\ IsStopIteration(log[j].res)
                       /\ IsStopIteration(log[j].res2)

C33_Witness ==
  /\ IsAdders
  /\ \E k, j, m \in Calls :
       /\ k < j /\ j < m
       /\ log[k].op = "close" /\ log[k].pre.state = "suspended"
       /\ ~log[k].pre2.stopped
       /\ log[k].res = Return(None) /\ log[k].res2 = Return(None)
       /\ log[j].op = "close" /\ log[j].res2 = Return(None)
       /\ log[m].op = "send" /\ log[m].arg = PyInt(10)
       /\ IsStopIteration(log[m].res) /\ IsStopIteration(log[m].res2)


(* the argument is a list or tuple of several elements whose first one is  *)
(* an iterable of ints                                                     *)
FirstOfSeveral(x) == x.t \in {"tuple_with_rest", "list_with_rest"}

(* C34: when the list or tuple sent into a running adder has more than     *)
(* one element and its first element is an iterable, the send adds the     *)
(* integers of that first element to the total and nothing else: the       *)
(* other elements are ignored. adder_function and Adder.send do the same.  *)
C34_OnlyFirstIterableIsSummed ==
  IsAdders =>
    \A k \in Calls :
      (log[k].op = "send" /\ FirstOfSeveral(log[k].arg))
      => /\ log[k].pre.state = "suspended"
            => /\ log[k].post.total
                    = log[k].pre.total + SeqSum(ListItems[log[k].arg.v])
               /\ log[k].res = Return(PyInt(log[k].post.total))
         /\ ~log[k].pre2.stopped
            => /\ log[k].post2.total
                    = log[k].pre2.total + SeqSum(ListItems[log[k].arg.v])
               /\ log[k].res2 = Return(PyInt(log[k].post2.total))

C34_Witness ==
  /\ IsAdders
  /\ \E k \in Calls :
       /\ log[k].op = "send" /\ log[k].arg = PyTupleWithRest(3)
       /\ log[k].pre.total = 10 /\ log[k].pre2.total = 10
       /\ log[k].res = Return(PyInt(16)) /\ log[k].res2 = Return(PyInt(16))


(* the exception RangeIterator raises for the stop the iterable holds *)
StopError ==
  IF ~isinstance_int(obj.stop) THEN Raise("TypeError") ELSE Raise("ValueError")

(* C35: RangeIterable(stop) never raises and stores stop as given, valid   *)
(* or not. For a stop that is not an int or is negative, every iter() on   *)
(* the iterable raises TypeError (not an int) or ValueError (negative      *)
(* int) and creates no iterator, and every for loop and                    *)
(* manual_simplified_for_loop over it ends with that exception without     *)
(* running its body; no iterator ever exists and nothing is printed. For   *)
(* any other stop iter() returns an iterator.                              *)
C35_ValidationIsDeferredToIter ==
  ctor.cls = "RangeIterable" =>
    /\ ctor.res = Return(None)
    /\ obj.cls = "RangeIterable" /\ obj.stop = ctor.arg
    /\ ~ValidIterable
       => /\ iters = <<>> /\ out = <<>>
          /\ \A k \in Calls :
               /\ log[k].tgt = 0
               /\ log[k].op \in {"iter", "for", "manual_simplified_for_loop"}
               /\ log[k].res = StopError
               /\ log[k].ref = 0
               /\ log[k].outs = <<>>
    /\ ValidIterable
       => \A k \in Calls :
            (log[k].op = "iter" /\ log[k].tgt = 0)
            => log[k].res = Return(PyRef(log[k].ref)) /\ log[k].fresh

C35_Witness ==
  /\ ctor.cls = "RangeIterable" /\ ctor.arg = PyInt(-1)
  /\ ctor.res = Return(None)
  /\ \E k, j, m \in Calls :
       /\ k < j /\ j < m
       /\ log[k].op = "iter" /\ log[k].res = Raise("ValueError")
       /\ log[j].op = "iter" /\ log[j].res = Raise("ValueError")
       /\ log[m].op = "for" /\ log[m].res = Raise("ValueError")
       /\ log[m].outs = <<>>

====
